---- MODULE Spec2Model ----
(***************************************************************************)
(* Model of todo-sync: the reconciliation between a local Taskwarrior      *)
(* store and two external task sources (Things 3 and Asana).               *)
(*                                                                         *)
(* Text is modelled as follows.  Tags and annotations, whose characters    *)
(* the code inspects (whitespace replacement, trimming, sorting), are      *)
(* sequences of characters (" ", "_", "a", "s", "t").  Descriptions,       *)
(* projects, due dates, priorities and external identities are only        *)
(* compared for equality by the code and are opaque strings; "" stands     *)
(* for an absent optional field (the code tests them by truthiness only).  *)
(* A local id (the store's uuid) is the position of the record in the      *)
(* store; 0 stands for the empty uuid string.                              *)
(***************************************************************************)
EXTENDS Integers, Sequences, FiniteSets, TLC

\* ------------------------------------------------------------------ bounds
MaxRecords == 2
MaxBatch == 3
MaxTags == 2
MaxNotes == 2
MaxCalls == 3
MaxReply == 5

\* --------------------------------------------------------- program constants
AnnotationCap == 1000

\* ------------------------------------------------------------ text helpers
SP == " "
US == "_"
CharRank(c) == IF c = SP THEN 1 ELSE IF c = US THEN 2 ELSE IF c = "a" THEN 3 ELSE IF c = "s" THEN 4 ELSE 5

IsSpace(c) == c = SP

\* tag.replace(/\s+/g, "_"): every maximal run of whitespace becomes one "_"
RECURSIVE SanitizeFrom(_, _, _)
SanitizeFrom(t, i, inRun) ==
  IF i > Len(t) THEN << >>
  ELSE IF IsSpace(t[i])
       THEN (IF inRun THEN << >> ELSE << US >>) \o SanitizeFrom(t, i + 1, TRUE)
       ELSE << t[i] >> \o SanitizeFrom(t, i + 1, FALSE)

SanitizeTag(t) == SanitizeFrom(t, 1, FALSE)

\* (taskData.tags ?? []).map(t => t.replace(/\s+/g, "_"))
MapSanitize(tags) == [i \in 1..Len(tags) |-> SanitizeTag(tags[i])]

\* lexicographic order of two texts by character code (Array.prototype.sort)
RECURSIVE TextLess(_, _)
TextLess(a, b) ==
  IF Len(a) = 0 THEN Len(b) > 0
  ELSE IF Len(b) = 0 THEN FALSE
  ELSE IF CharRank(a[1]) # CharRank(b[1]) THEN CharRank(a[1]) < CharRank(b[1])
  ELSE TextLess(Tail(a), Tail(b))

RECURSIVE InsertSorted(_, _)
InsertSorted(x, s) ==
  IF Len(s) = 0 THEN << x >>
  ELSE IF TextLess(s[1], x) THEN << s[1] >> \o InsertSorted(x, Tail(s))
  ELSE << x >> \o s

RECURSIVE SortTexts(_)
SortTexts(s) == IF Len(s) = 0 THEN << >> ELSE InsertSorted(s[1], SortTexts(Tail(s)))

Range(s) == {s[i] : i \in 1..Len(s)}

RECURSIVE SetToSeq(_)
SetToSeq(S) == IF S = {} THEN << >>
               ELSE LET x == CHOOSE y \in S : TRUE IN << x >> \o SetToSeq(S \ {x})

\* note.trim(): strip leading and trailing whitespace
RECURSIVE TrimLeft(_)
TrimLeft(n) == IF Len(n) > 0 /\ IsSpace(n[1]) THEN TrimLeft(Tail(n)) ELSE n

RECURSIVE TrimRight(_)
TrimRight(n) == IF Len(n) > 0 /\ IsSpace(n[Len(n)])
                THEN TrimRight(SubSeq(n, 1, Len(n) - 1)) ELSE n

Trim(n) == TrimRight(TrimLeft(n))

\* text.slice(0, k)
Slice(n, k) == SubSeq(n, 1, IF Len(n) < k THEN Len(n) ELSE k)


\* ------------------------------------------------------------- identities
ThingsField == "things3_uuid"
AsanaField == "asana_gid"
ThingsIds == {"t1"}
AsanaIds == {"a1", "a2"}
Ids == ThingsIds \cup AsanaIds

FieldOfId(id) == IF id \in ThingsIds THEN ThingsField ELSE AsanaField

\* ------------------------------------------------------------------ store
\* The value a store record carries in an identity field ("" when absent).
FieldValue(rec, udaName) ==
  IF udaName = ThingsField THEN rec.things3_uuid ELSE rec.asana_gid

\* `task status:S uda:value export`: local ids of the matching records, in
\* the store's order.
RECURSIVE MatchingFrom(_, _, _, _, _)
MatchingFrom(st, i, status, udaName, value) ==
  IF i > Len(st) THEN << >>
  ELSE (IF st[i].status = status /\ FieldValue(st[i], udaName) = value
        THEN << i >> ELSE << >>)
       \o MatchingFrom(st, i + 1, status, udaName, value)

Matching(st, status, udaName, value) == MatchingFrom(st, 1, status, udaName, value)

\* Replies of the store to the commands of one upsertTask call:
\*   pending, waiting: reply to the identity search of that status,
\*        "ok" (the export of the matching records), "malformed" (output that
\*        is blank or does not parse), "fail" (the command errors, exit
\*        status other than 1);
\*   add: "ok" (record created, uuid printed), "nouuid" (record created, no
\*        uuid in the output), "fail";
\*   modify: "ok" or "fail";
\*   annotate: number of the annotate call that fails, 0 for none.
SearchReplies == {"ok", "malformed", "fail"}
AddReplies == {"ok", "nouuid", "fail"}
CmdReplies == {"ok", "fail"}
AllOk == [pending |-> "ok", waiting |-> "ok", add |-> "ok", modify |-> "ok", annotate |-> 0]

SearchStatusesWaitingFirst == << "waiting", "pending" >>
SearchStatusesPendingOnly == << "pending" >>
SearchStatuses == << "pending", "waiting" >>

\* The list findByExternalId gets from the output of a search command
\* that returned: the matching records, or nothing when the output is
\* blank or JSON.parse throws (`continue`).
ParseExportUnchecked(reply, found) == found
ParseExport(reply, found) == IF reply = "ok" THEN found ELSE << >>

\* findByExternalId: [threw, uuid], uuid = 0 for null
RECURSIVE FindFrom(_, _, _, _, _)
FindFrom(st, k, udaName, value, r) ==
  IF k > Len(SearchStatuses) THEN [threw |-> FALSE, uuid |-> 0]
  ELSE LET status == SearchStatuses[k]
           reply == IF status = "pending" THEN r.pending ELSE r.waiting
           found == ParseExport(reply, Matching(st, status, udaName, value))
       IN IF reply = "fail" THEN [threw |-> TRUE, uuid |-> 0]
          ELSE IF Len(found) > 0
               THEN [threw |-> FALSE, uuid |-> found[1]]
               ELSE FindFrom(st, k + 1, udaName, value, r)

findByExternalId(st, udaName, value, r) == FindFrom(st, 1, udaName, value, r)

\* The annotate calls of the create path: the notes that are non-blank
\* after trimming, trimmed and capped.
RECURSIVE AnnotateTexts(_)
AnnotateTexts(notes) ==
  IF Len(notes) = 0 THEN << >>
  ELSE (IF Len(Trim(notes[1])) > 0
        THEN << Slice(Trim(notes[1]), AnnotationCap) >> ELSE << >>)
       \o AnnotateTexts(Tail(notes))

\* The record `task add` creates from the parts of the create path.
NewRecord(externalIdField, externalId, taskData) ==
  [status |-> "pending",
   description |-> taskData.description,
   things3_uuid |-> IF externalIdField = ThingsField THEN externalId ELSE "",
   asana_gid |-> IF externalIdField = AsanaField THEN externalId ELSE "",
   source |-> taskData.source,
   tags |-> Range(MapSanitize(taskData.tags)),
   project |-> taskData.project,
   due |-> taskData.due,
   priority |-> taskData.priority,
   annotations |-> << >>,
   things3_synced |-> FALSE,
   asana_synced |-> FALSE,
   depends |-> {}]

\* Comparison of the record's tags with the task's tags (update path).
TagsDiffer(existing, taskData) ==
  SortTexts(SetToSeq(existing.tags)) # SortTexts(MapSanitize(taskData.tags))

\* The fields the update path puts in its modify command.
Updates(existing, taskData) ==
  (IF taskData.description # "" /\ taskData.description # existing.description
   THEN {"description"} ELSE {})
  \cup (IF taskData.project # "" /\ taskData.project # existing.project
        THEN {"project"} ELSE {})
  \cup (IF taskData.due # "" /\ taskData.due # existing.due THEN {"due"} ELSE {})
  \cup (IF taskData.priority # "" /\ taskData.priority # existing.priority
        THEN {"priority"} ELSE {})
  \cup (IF TagsDiffer(existing, taskData) THEN {"tags"} ELSE {})

\* `task <uuid> modify <updates>`
Modified(existing, taskData, updates) ==
  [existing EXCEPT
     !.description = IF "description" \in updates THEN taskData.description ELSE @,
     !.project = IF "project" \in updates THEN taskData.project ELSE @,
     !.due = IF "due" \in updates THEN taskData.due ELSE @,
     !.priority = IF "priority" \in updates THEN taskData.priority ELSE @,
     !.tags = IF "tags" \in updates THEN Range(MapSanitize(taskData.tags)) ELSE @]

\* upsertTask.  The result gives the store after the call, the outcome
\* ("created", "updated", "skipped", or "threw" when a store command error
\* leaves the function), the returned uuid, the numbers of add, modify and
\* annotate commands issued and the fields of the modify command.
upsertTask(st, externalIdField, externalId, taskData, r) ==
  LET f == findByExternalId(st, externalIdField, externalId, r)
      none == [store |-> st, outcome |-> "threw", uuid |-> 0,
               adds |-> 0, modifies |-> 0, annotates |-> 0, payload |-> {}]
  IN IF f.threw THEN none
     ELSE IF f.uuid # 0
     THEN LET existing == st[f.uuid]
              updates == Updates(existing, taskData)
          IN IF updates # {}
             THEN IF r.modify = "fail"
                  THEN [none EXCEPT !.modifies = 1, !.payload = updates]
                  ELSE [none EXCEPT
                          !.store = [st EXCEPT ![f.uuid] = Modified(existing, taskData, updates)],
                          !.outcome = "updated", !.uuid = f.uuid,
                          !.modifies = 1, !.payload = updates]
             ELSE [none EXCEPT !.outcome = "skipped", !.uuid = f.uuid]
     ELSE IF r.add = "fail" THEN [none EXCEPT !.adds = 1]
     ELSE LET uuid == IF r.add = "ok" THEN Len(st) + 1 ELSE 0
              texts == IF uuid # 0 THEN AnnotateTexts(taskData.annotations) ELSE << >>
              failAt == IF r.annotate > 0 /\ r.annotate <= Len(texts) THEN r.annotate ELSE 0
              done == IF failAt > 0 THEN failAt - 1 ELSE Len(texts)
              rec == [NewRecord(externalIdField, externalId, taskData)
                        EXCEPT !.annotations = SubSeq(texts, 1, done)]
          IN [store |-> Append(st, rec),
              outcome |-> IF failAt > 0 THEN "threw" ELSE "created",
              uuid |-> IF failAt > 0 THEN 0 ELSE uuid,
              adds |-> 1, modifies |-> 0,
              annotates |-> IF failAt > 0 THEN failAt ELSE Len(texts),
              payload |-> {}]

\* buildTaskData: the canonical task of a source record.
buildTaskData(opts) ==
  [description |-> opts.description,
   things3_uuid |-> IF opts.externalIdField = ThingsField THEN opts.externalId ELSE "",
   asana_gid |-> IF opts.externalIdField = AsanaField THEN opts.externalId ELSE "",
   source |-> opts.source,
   tags |-> IF opts.sourceTag \in Range(opts.tags) THEN opts.tags
            ELSE Append(opts.tags, opts.sourceTag),
   project |-> opts.project,
   due |-> opts.due,
   priority |-> IF opts.priority \in {"H", "M", "L"} THEN opts.priority ELSE "",
   annotations |-> opts.annotations]

\* ------------------------------------------------------------ the sources
\* Things 3 holds t1; Asana holds a1 and its subtask a2.  The state of a
\* source is not part of the model's state: each fetch reads the set of the
\* tasks that are open at that moment, and the tags t1 has at that moment
\* (one of two tag lists, << "a a" >> and << "a a", "a_a" >>).
ThingsTag == << "t" >>
AsanaTag == << "s" >>
ThingsOrder == << "t1" >>
AsanaParent == "a1"
AsanaSub == "a2"

SourceTags(id, alt) ==
  IF id \in ThingsIds
  THEN (IF alt THEN << << "a", SP, "a" >>, << "a", US, "a" >> >> ELSE << << "a", SP, "a" >> >>)
  ELSE << >>

\* transformThingsRows / fetchAsanaTasks: the task built for a source record
DataOf(id, alt) ==
  buildTaskData([description |-> id,
                 externalIdField |-> FieldOfId(id),
                 externalId |-> id,
                 source |-> IF id \in ThingsIds THEN "things3" ELSE "asana",
                 sourceTag |-> IF id \in ThingsIds THEN ThingsTag ELSE AsanaTag,
                 project |-> "",
                 due |-> "",
                 priority |-> "",
                 tags |-> SourceTags(id, alt),
                 annotations |-> << >>])

\* ------------------------------------------------------------------ state
VARIABLES
  store,               \* the Taskwarrior ledger: sequence of records
  udas,                \* the UDAs are configured in the store
  todo,                \* phases of the running command still to run (head = current)
  dryRun,              \* --dry-run of the running command
  pc,                  \* position in the current phase
  tasks,               \* syncSource: tasks (after filtering), as [id, parent, alt]
  fetchedExternalIds,  \* syncSource: identities captured before filtering
  idx,                 \* loop index of the upsert loop / the push loop
  gidToUuid,           \* syncSource: identity -> local id (0 = no entry)
  counts,              \* syncSource: created / updated / skipped
  candidates,          \* push: local ids returned by findCompleted...Tasks
  pushCounts,          \* push: synced / skipped / errors
  cyc,                 \* history of the current pull cycle
  lastSearch,          \* history: the identity search of the latest upsert step
  hist,                \* history: the log of the upsertTask calls of SpecUpsert
  pushLog,             \* history: the Completion Writer calls of SpecPush
  runs                 \* SpecOverlap: the locals of the two overlapping runs

vars == << store, udas, todo, dryRun, pc, tasks,
           fetchedExternalIds, idx, gidToUuid, counts, candidates, pushCounts,
           cyc, lastSearch, hist, pushLog, runs >>

\* The commands `all`, `sync` and `push`, with both sources configured.
\* `all` and `sync` run the same two pulls, and `sync` then runs the two
\* pushes of `push`.  Which of `all` and `sync` is running makes no
\* difference before the second pull has returned, so a command is started
\* as "pull" (`all` or `sync`) or as "push", and the two are told apart
\* only when the second pull returns (FinishPhase).
Commands == {"pull", "push"}

PullPhases == << "pullT", "pullA" >>
PushPhasesThenPull == << "pushT", "pullA" >>
PushPhases == << "pushT", "pushA" >>
Phases(cmd) == IF cmd = "pull" THEN PullPhases ELSE PushPhases

IsPull(ph) == ph \in {"pullT", "pullA"}
PhaseField(ph) == IF ph \in {"pullT", "pushT"} THEN ThingsField ELSE AsanaField
FirstPc(ph) == IF IsPull(ph) THEN "udas" ELSE "scan"

NoCounts == [created |-> 0, updated |-> 0, skipped |-> 0]
NoPushCounts == [synced |-> 0, skipped |-> 0, errors |-> 0]
NoGids == [i \in Ids |-> 0]
NoCyc == [fetch |-> "none", missed |-> {}, subFail |-> FALSE, excluded |-> {},
          classFail |-> FALSE, linkCalls |-> {}, staleCount |-> 0, staleFault |-> FALSE]
NoHist == << >>
NoPushLog == [last |-> "none", u |-> 0, written |-> {}]
NoRuns == << >>

Init ==
  /\ store = << >>
  /\ udas = FALSE
  /\ todo = << >>
  /\ dryRun = FALSE
  /\ pc = "idle"
  /\ tasks = << >>
  /\ fetchedExternalIds = {}
  /\ idx = 0
  /\ gidToUuid = NoGids
  /\ counts = NoCounts
  /\ candidates = << >>
  /\ pushCounts = NoPushCounts
  /\ cyc = NoCyc
  /\ lastSearch = "none"
  /\ hist = NoHist
  /\ pushLog = NoPushLog
  /\ runs = NoRuns

\* The locals of syncSource and of the push functions, when none is running.
ResetLocals ==
  /\ tasks' = << >>
  /\ fetchedExternalIds' = {}
  /\ idx' = 0
  /\ gidToUuid' = NoGids
  /\ counts' = NoCounts
  /\ candidates' = << >>
  /\ pushCounts' = NoPushCounts

loopVars == << tasks, fetchedExternalIds, idx, gidToUuid, counts, candidates, pushCounts >>

\* ----------------------------------------------------- the environment
\* History: the store was changed by the user after the latest logged call.
Touched(h) ==
  IF Len(h) = 0 THEN h ELSE [h EXCEPT ![Len(h)].touched = TRUE]

\* The user marks a local record done (`task <uuid> done`).
LocalDone(u) ==
  /\ pc = "idle"
  /\ u \in 1..Len(store)
  /\ store[u].status \in {"pending", "waiting"}
  /\ store' = [store EXCEPT ![u].status = "completed"]
  /\ hist' = Touched(hist)
  /\ UNCHANGED << udas, todo, dryRun, pc, loopVars, cyc, lastSearch, pushLog, runs >>

\* The user defers a pending record (`task <uuid> modify wait:...`), or the
\* wait of a waiting record expires.
LocalWait(u) ==
  /\ pc = "idle"
  /\ u \in 1..Len(store)
  /\ store[u].status \in {"pending", "waiting"}
  /\ store' = [store EXCEPT ![u].status = IF @ = "pending" THEN "waiting" ELSE "pending"]
  /\ hist' = Touched(hist)
  /\ UNCHANGED << udas, todo, dryRun, pc, loopVars, cyc, lastSearch, pushLog, runs >>

\* ------------------------------------------------------------- commands
\* program.command(...).action: a command starts with its first phase.
StartCommand(cmd, dry) ==
  /\ pc = "idle"
  /\ todo' = Phases(cmd)
  /\ dryRun' = dry
  /\ pc' = FirstPc(Head(Phases(cmd)))
  /\ cyc' = NoCyc
  /\ ResetLocals
  /\ lastSearch' = "none"
  /\ UNCHANGED << store, udas, hist, pushLog, runs >>

\* The current phase returned: the command goes on with its next phase, or
\* ends after its last one.  isSync: the running command is `sync`; it
\* matters when the second pull returns.
FinishPhase(isSync) ==
  /\ pc = "end"
  /\ isSync => todo = << "pullA" >>
  /\ todo' = IF isSync THEN PushPhases ELSE Tail(todo)
  /\ pc' = IF Len(todo') > 0 THEN FirstPc(Head(todo')) ELSE "exit"
  /\ cyc' = NoCyc
  /\ ResetLocals
  /\ lastSearch' = "none"
  /\ UNCHANGED << store, udas, dryRun, hist, pushLog, runs >>

\* The process of the command is gone (normally or by the rejection).
Exit ==
  /\ pc \in {"exit", "aborted"}
  /\ pc' = "idle"
  /\ todo' = << >>
  /\ dryRun' = FALSE
  /\ cyc' = NoCyc
  /\ ResetLocals
  /\ lastSearch' = "none"
  /\ UNCHANGED << store, udas, hist, pushLog, runs >>

\* ------------------------------------------------------------ syncSource
\* ensureUdas at the head of syncSource (also in a dry run): it configures
\* the missing UDAs, or a store command error leaves syncSource.
EnsureUdas(ok) ==
  /\ pc = "udas"
  /\ IF ok THEN udas' = TRUE /\ pc' = "fetch"
           ELSE UNCHANGED udas /\ pc' = "aborted"
  /\ UNCHANGED << store, todo, dryRun, loopVars, cyc, lastSearch, hist, pushLog, runs >>

Entry(id, parent, alt) == [id |-> id, parent |-> parent, alt |-> alt]

RECURSIVE SelectSeq2(_, _)
SelectSeq2(s, S) ==
  IF Len(s) = 0 THEN << >>
  ELSE (IF s[1] \in S THEN << s[1] >> ELSE << >>) \o SelectSeq2(Tail(s), S)

\* fetchThingsTasks: the open to-dos, in the order of the query
fetchThingsTasks(open, alt) ==
  LET ids == SelectSeq2(ThingsOrder, open)
  IN [i \in 1..Len(ids) |-> Entry(ids[i], "", alt)]

\* fetchAsanaTasks: the open tasks of the user's task list, then the open
\* subtasks of each of them whose subtask request succeeded.  subInList:
\* the subtask is itself in the user's task list; subFail: the subtask
\* request of the parent fails.
fetchAsanaTasks(open, subInList, subFail) ==
  LET raw == SelectSeq2(IF subInList THEN << AsanaParent, AsanaSub >> ELSE << AsanaParent >>, open)
      result == [i \in 1..Len(raw) |-> Entry(raw[i], "", FALSE)]
      allSubtasks == IF AsanaParent \in Range(raw) /\ ~subFail /\ AsanaSub \in open
                     THEN << Entry(AsanaSub, AsanaParent, FALSE) >> ELSE << >>
  IN result \o allSubtasks

\* The identities of a fetched list, as syncSource captures them.
CapturedIds(ts, externalIdField) ==
  {FieldValue(DataOf(ts[i].id, ts[i].alt), externalIdField) : i \in 1..Len(ts)} \ {""}

\* Where syncSource goes after the filtering: the dry-run branch only
\* prints, the other branch runs the upsert loop and the linking.
AfterFilterPc(ts) ==
  IF dryRun THEN "stale" ELSE IF Len(ts) > 0 THEN "upsert" ELSE "link"

\* syncSource, the fetch: on an error it prints and returns.
OnFetchErrorFallThrough == "stale"
OnFetchErrorRethrow == "aborted"
OnFetchError == "end"

FetchFail ==
  /\ pc = "fetch"
  /\ pc' = OnFetchError
  /\ cyc' = [cyc EXCEPT !.fetch = "failed"]
  /\ UNCHANGED << store, udas, todo, dryRun, loopVars, lastSearch, hist, pushLog, runs >>

FetchOk(open, alt, subInList, subFail) ==
  /\ pc = "fetch"
  /\ LET field == PhaseField(Head(todo))
         ts == IF field = ThingsField THEN fetchThingsTasks(open, alt)
               ELSE fetchAsanaTasks(open, subInList, subFail)
     IN /\ open \subseteq (IF field = ThingsField THEN ThingsIds ELSE AsanaIds)
        /\ field = ThingsField => ~subInList /\ ~subFail
        /\ alt => field = ThingsField /\ open # {}
        /\ subInList => AsanaSub \in open
        /\ subFail => AsanaParent \in open /\ AsanaSub \in open
        /\ tasks' = ts
        /\ fetchedExternalIds' = CapturedIds(ts, field)
        /\ pc' = IF field = ThingsField THEN "filter" ELSE AfterFilterPc(ts)
        /\ idx' = 1
        /\ cyc' = [cyc EXCEPT !.fetch = "ok", !.subFail = subFail,
                              !.missed = IF subFail THEN open \ {ts[i].id : i \in 1..Len(ts)}
                                         ELSE {}]
  /\ UNCHANGED << store, udas, todo, dryRun, gidToUuid, counts,
                  candidates, pushCounts, lastSearch, hist, pushLog, runs >>

\* What the Ollama service does with the request for one task: it answers
\* "yes" or "no"; "error": it answers with an error reply, a JSON body that
\* has no response field; "unreachable": the request is rejected, times out
\* or is answered with a body that is not JSON.
ClassifierReplies == {"yes", "no", "error", "unreachable"}
ClassifierFailures == {"error", "unreachable"}

\* The reply at the level of its text.  A body is "rejected" (fetch
\* rejects or times out), "notjson" (resp.json() rejects), "nofield" (a
\* JSON object without a response field) or "text" with the response text,
\* a sequence of characters in which the marker "</think>" is one element.
ThinkEnd == "</think>"
Yes == << "y", "e", "s" >>
ReplyChars == {"y", "Y", "e", "s", SP, ThinkEnd}

\* String.prototype.toLowerCase on the characters of ReplyChars.
ToLowerCase(t) == [i \in 1..Len(t) |-> IF t[i] = "Y" THEN "y" ELSE t[i]]

Includes(t, c) == \E i \in 1..Len(t) : t[i] = c

\* answer.split("</think>")[0] and answer.split("</think>").pop()
SplitFirst(t, c) ==
  LET i == CHOOSE j \in 1..Len(t) :
             t[j] = c /\ \A k \in 1..(j - 1) : t[k] # c
  IN SubSeq(t, i + 1, Len(t))
SplitPop(t, c) ==
  LET i == CHOOSE j \in 1..Len(t) :
             t[j] = c /\ \A k \in (j + 1)..Len(t) : t[k] # c
  IN SubSeq(t, i + 1, Len(t))

StartsWith(t, prefix) ==
  Len(t) >= Len(prefix) /\ SubSeq(t, 1, Len(prefix)) = prefix

\* classifyTask on a reply body: [threw, keep].
classifyBody(body) ==
  IF body.kind \in {"rejected", "notjson"}
  THEN [threw |-> TRUE, keep |-> FALSE]
  ELSE LET response == IF body.kind = "text" THEN body.text ELSE << >>
           answer == ToLowerCase(Trim(response))
           final == IF Includes(answer, ThinkEnd)
                    THEN Trim(SplitPop(answer, ThinkEnd))
                    ELSE answer
       IN [threw |-> FALSE, keep |-> StartsWith(final, Yes)]

\* The body behind each of the ClassifierReplies.
BodyOf(reply) ==
  CASE reply = "yes" -> [kind |-> "text", text |-> Yes]
    [] reply = "no" -> [kind |-> "text", text |-> << "n", "o" >>]
    [] reply = "error" -> [kind |-> "nofield", text |-> << >>]
    [] OTHER -> [kind |-> "rejected", text |-> << >>]

\* classifyTask: [threw, keep]; the answer of an error reply is the empty
\* text, which does not start with "yes".
classifyTask(reply) == classifyBody(BodyOf(reply))

\* included.push(task) / excluded.push(task)
PushTaskFront(list, task) == << task >> \o list
PushTask(list, task) == Append(list, task)

\* filterTasks, the loop from task i on, answers[i] being what the service
\* does with the request for task i: the lists built, the number of
\* classifyTask calls made, and whether a call threw (which ends the loop).
NoFilterRun == [threw |-> FALSE, included |-> << >>, excluded |-> << >>, calls |-> 0]

RECURSIVE FilterRun(_, _, _, _)
FilterRun(ts, i, answers, acc) ==
  IF i > Len(ts) THEN acc
  ELSE LET c == classifyTask(answers[i])
       IN IF c.threw THEN [acc EXCEPT !.threw = TRUE, !.calls = @ + 1]
          ELSE FilterRun(ts, i + 1, answers,
                         IF c.keep
                         THEN [acc EXCEPT !.included = PushTask(@, ts[i]), !.calls = @ + 1]
                         ELSE [acc EXCEPT !.excluded = PushTask(@, ts[i]), !.calls = @ + 1])

\* filterTasks, for the replies given per identity: it throws when a
\* classifyTask call throws, and else includes the tasks answered yes.
filterTasks(ts, reply) ==
  LET run == FilterRun(ts, 1, [i \in 1..Len(ts) |-> reply[ts[i].id]], NoFilterRun)
  IN [threw |-> run.threw,
      included |-> {run.included[k].id : k \in 1..Len(run.included)}]

\* syncSource, the Ollama filtering (useOllama: Things only).  enabled:
\* config.ollama.enabled; failed: filterTasks throws; keep: the identities
\* the classifier answers yes for.
KeptTasks(ts, enabled, failed, keep) ==
  IF enabled /\ ~failed
  THEN LET ix == SelectSeq2([i \in 1..Len(ts) |-> i], {i \in 1..Len(ts) : ts[i].id \in keep})
       IN [k \in 1..Len(ix) |-> ts[ix[k]]]
  ELSE ts

Filter(enabled, reply) ==
  /\ pc = "filter"
  /\ LET result == filterTasks(tasks, reply)
         ts == KeptTasks(tasks, enabled, result.threw, result.included)
     IN /\ ~enabled => \A id \in ThingsIds : reply[id] = "yes"
        /\ \A id \in ThingsIds \ {tasks[i].id : i \in 1..Len(tasks)} : reply[id] = "yes"
        /\ tasks' = ts
        /\ pc' = AfterFilterPc(ts)
        /\ cyc' = [cyc EXCEPT !.excluded = {tasks[i].id : i \in 1..Len(tasks)}
                                           \ {ts[i].id : i \in 1..Len(ts)},
                              !.classFail = enabled /\ \E i \in 1..Len(tasks) :
                                              reply[tasks[i].id] \in ClassifierFailures]
  /\ UNCHANGED << store, udas, todo, dryRun, fetchedExternalIds, idx,
                  gidToUuid, counts, candidates, pushCounts, lastSearch, hist, pushLog, runs >>

\* The replies the store may give during one upsertTask call.
AllReplies ==
  [pending : SearchReplies, waiting : SearchReplies, add : AddReplies,
   modify : CmdReplies, annotate : 0..1]

\* The replies within one call of the sync cycles: at most one of the
\* commands of the call gets a reply other than the regular one.
Replies ==
  {r \in AllReplies :
     Cardinality({f \in {"pending", "waiting", "add", "modify", "annotate"} : r[f] # AllOk[f]}) <= 1}

\* A malformed reply was given to a search that upsertTask issued.
SearchMalformed(st, udaName, value, r) ==
  \/ r.pending = "malformed"
  \/ /\ r.pending = "ok"
     /\ Len(Matching(st, "pending", udaName, value)) = 0
     /\ r.waiting = "malformed"

\* History: how the identity search of an upsertTask call went.
SearchKind(st, udaName, value, r) ==
  IF findByExternalId(st, udaName, value, r).threw THEN "failed"
  ELSE IF SearchMalformed(st, udaName, value, r) THEN "malformed"
  ELSE "faithful"

\* syncSource, one iteration of the upsert loop.  The loop has no handler:
\* an upsertTask call that throws leaves syncSource.
UpsertStep(r) ==
  /\ pc = "upsert"
  /\ idx <= Len(tasks)
  /\ LET field == PhaseField(Head(todo))
         taskData == DataOf(tasks[idx].id, tasks[idx].alt)
         externalId == FieldValue(taskData, field)
         res == upsertTask(store, field, externalId, taskData, r)
         last == idx = Len(tasks)
     IN /\ externalId # ""
        /\ Len(res.store) <= MaxRecords
        /\ store' = res.store
        /\ lastSearch' = SearchKind(store, field, externalId, r)
        /\ IF res.outcome = "threw"
           THEN /\ pc' = "aborted"
                /\ tasks' = << >>
                /\ fetchedExternalIds' = {}
                /\ idx' = 0
                /\ counts' = NoCounts
                /\ gidToUuid' = NoGids
                /\ cyc' = [cyc EXCEPT !.subFail = FALSE, !.missed = {}, !.classFail = FALSE]
           ELSE /\ pc' = IF last THEN "link" ELSE "upsert"
                /\ idx' = idx + 1
                /\ counts' = [counts EXCEPT ![res.outcome] = @ + 1]
                /\ gidToUuid' = IF res.uuid # 0
                                THEN [gidToUuid EXCEPT ![externalId] = res.uuid]
                                ELSE gidToUuid
                /\ UNCHANGED << tasks, fetchedExternalIds, cyc >>
  /\ UNCHANGED << udas, todo, dryRun, candidates, pushCounts, hist, pushLog, runs >>

\* setDependency(childUuid, parentUuid): `task <child> modify depends:<parent>`
setDependency(st, childUuid, parentUuid) ==
  [st EXCEPT ![childUuid].depends = @ \cup {parentUuid}]

\* syncSource, the linking loop from entry i on; fails: the entries whose
\* setDependency call throws (caught inside the loop).
RECURSIVE LinkFrom(_, _, _, _, _)
LinkFrom(st, ts, i, g, fails) ==
  IF i > Len(ts) THEN st
  ELSE LET t == ts[i]
           linkable == t.parent # "" /\ g[t.id] # 0 /\ g[t.parent] # 0
       IN LinkFrom(IF linkable /\ i \notin fails
                   THEN setDependency(st, g[t.id], g[t.parent]) ELSE st,
                   ts, i + 1, g, fails)

\* History: the entries of the fetched list for which the linking loop
\* calls setDependency.
LinkCalls(ts, g) ==
  {i \in 1..Len(ts) : ts[i].parent # "" /\ g[ts[i].id] # 0 /\ g[ts[i].parent] # 0}

\* syncSource, the linking and the summary line that ends the block of the
\* real run: counts and gidToUuid, declared in that block, end with it.
Link(fails) ==
  /\ pc = "link"
  /\ fails \subseteq LinkCalls(tasks, gidToUuid)
  /\ store' = LinkFrom(store, tasks, 1, gidToUuid, fails)
  /\ cyc' = [cyc EXCEPT !.linkCalls = LinkCalls(tasks, gidToUuid)]
  /\ pc' = "stale"
  /\ gidToUuid' = NoGids
  /\ counts' = NoCounts
  /\ idx' = 0
  /\ lastSearch' = "none"
  /\ UNCHANGED << udas, todo, dryRun, tasks, fetchedExternalIds,
                  candidates, pushCounts, hist, pushLog, runs >>

\* findAllPendingBySource(externalIdField): identity -> local id over the
\* pending and then the waiting records carrying the field, a later record
\* replacing an earlier one with the same identity; a listing whose output
\* does not parse contributes nothing.  The result is the sequence of the
\* map's entries in insertion order.
RECURSIVE ListingFromAnySource(_, _, _, _)
ListingFromAnySource(st, i, status, udaName) ==
  IF i > Len(st) THEN << >>
  ELSE (IF st[i].status = status THEN << i >> ELSE << >>)
         \o ListingFromAnySource(st, i + 1, status, udaName)

RECURSIVE ListingFrom(_, _, _, _)
ListingFrom(st, i, status, udaName) ==
  IF i > Len(st) THEN << >>
  ELSE (IF st[i].status = status /\ FieldValue(st[i], udaName) # ""
        THEN << i >> ELSE << >>) \o ListingFrom(st, i + 1, status, udaName)

RECURSIVE MapEntries(_, _, _)
MapEntries(st, listing, udaName) ==
  IF Len(listing) = 0 THEN << >>
  ELSE LET n == Len(listing)
           u == listing[n]
           before == MapEntries(st, SubSeq(listing, 1, n - 1), udaName)
           key == FieldValue(st[u], udaName)
           pos == {k \in 1..Len(before) : FieldValue(st[before[k]], udaName) = key}
       IN IF pos = {} THEN Append(before, u)
          ELSE [k \in 1..Len(before) |-> IF k \in pos THEN u ELSE before[k]]

findAllPendingBySourceUnchecked(st, udaName, pendingOk, waitingOk) ==
  MapEntries(st, ListingFrom(st, 1, "pending", udaName) \o ListingFrom(st, 1, "waiting", udaName),
             udaName)
findAllPendingBySource(st, udaName, pendingOk, waitingOk) ==
  MapEntries(st,
             (IF pendingOk THEN ListingFrom(st, 1, "pending", udaName) ELSE << >>)
             \o (IF waitingOk THEN ListingFrom(st, 1, "waiting", udaName) ELSE << >>),
             udaName)

\* completeTask(uuid): `task <uuid> done`
completeTaskAsDeleted(st, uuid) == [st EXCEPT ![uuid].status = "deleted"]
completeTask(st, uuid) == [st EXCEPT ![uuid].status = "completed"]

\* The identity set the staleness comparison uses.
StaleReferenceKept(fetchedIds, kept, udaName) == CapturedIds(kept, udaName)
StaleReference(fetchedIds, kept, udaName) == fetchedIds

\* Where the stale loop goes on after a completeTask call that threw at
\* entry k of n: the catch is inside the loop, so with the next entry.
AfterCompleteErrorLeave(k, n) == n + 1
AfterCompleteError(k, n) == k + 1

\* syncSource, the stale loop from entry k of twTasks on: the store it
\* leaves and its staleCount.  ref: the identities fetched; fails: the
\* local ids whose completeTask call throws.
RECURSIVE StaleLoop(_, _, _, _, _, _, _)
StaleLoop(st, twTasks, k, udaName, ref, fails, dry) ==
  IF k > Len(twTasks) THEN [store |-> st, staleCount |-> 0]
  ELSE LET u == twTasks[k]
           isStale == FieldValue(st[u], udaName) \notin ref
           threw == isStale /\ ~dry /\ u \in fails
           rest == StaleLoop(IF isStale /\ ~dry /\ ~threw THEN completeTask(st, u) ELSE st,
                             twTasks,
                             IF threw THEN AfterCompleteError(k, Len(twTasks)) ELSE k + 1,
                             udaName, ref, fails, dry)
       IN [rest EXCEPT !.staleCount = @ + (IF isStale THEN 1 ELSE 0)]

\* syncSource, stale task detection.  fails: the local ids whose completeTask
\* call throws (caught inside the loop).
Stale(pendingOk, waitingOk, fails) ==
  /\ pc = "stale"
  /\ LET field == PhaseField(Head(todo))
         twTasks == findAllPendingBySource(store, field, pendingOk, waitingOk)
         ref == StaleReference(fetchedExternalIds, tasks, field)
         stale == {twTasks[k] : k \in {j \in 1..Len(twTasks) :
                                  FieldValue(store[twTasks[j]], field) \notin ref}}
         loop == StaleLoop(store, twTasks, 1, field, ref, fails, dryRun)
     IN /\ fails \subseteq stale
        /\ dryRun => fails = {}
        /\ store' = loop.store
        /\ cyc' = [cyc EXCEPT !.staleCount = loop.staleCount,
                              !.staleFault = ~pendingOk \/ ~waitingOk \/ fails # {},
                              !.subFail = FALSE, !.missed = {}, !.classFail = FALSE,
                              !.linkCalls = {}]
  /\ pc' = "end"
  /\ tasks' = << >>
  /\ fetchedExternalIds' = {}
  /\ idx' = 0
  /\ gidToUuid' = NoGids
  /\ UNCHANGED << udas, todo, dryRun, counts, candidates,
                  pushCounts, lastSearch, hist, pushLog, runs >>

\* ------------------------------------------------------- completion push
SyncedFlag(rec, udaName) ==
  IF udaName = ThingsField THEN rec.things3_synced ELSE rec.asana_synced

\* findCompletedThingsTasks / findCompletedAsanaTasks: the completed records
\* carrying the identity field; [] when the export fails.
IsCarrier(rec, udaName) == FieldValue(rec, udaName) # ""
IsCompletedCarrier(rec, udaName) ==
  rec.status = "completed" /\ FieldValue(rec, udaName) # ""

RECURSIVE CompletedFrom(_, _, _)
CompletedFrom(st, i, udaName) ==
  IF i > Len(st) THEN << >>
  ELSE (IF IsCompletedCarrier(st[i], udaName)
        THEN << i >> ELSE << >>) \o CompletedFrom(st, i + 1, udaName)

findCompletedTasks(st, udaName, ok) ==
  IF ok THEN CompletedFrom(st, 1, udaName) ELSE << >>

\* isAlreadySyncedToThings / isAlreadySyncedToAsana: false when the export fails
isAlreadySynced(st, uuid, udaName, readOk) ==
  readOk /\ SyncedFlag(st[uuid], udaName)

\* markAsSyncedToThings / markAsSyncedToAsana
markAsSynced(st, uuid, udaName) ==
  IF udaName = ThingsField THEN [st EXCEPT ![uuid].things3_synced = TRUE]
  ELSE [st EXCEPT ![uuid].asana_synced = TRUE]

\* The head of a push: the candidates are listed.  In a dry run
\* (dryRunPushThings / dryRunPushAsana) the not yet synced ones are counted
\* and nothing else is done; readFails: the local ids whose export fails.
Scan(ok, readFails) ==
  /\ pc = "scan"
  /\ LET field == PhaseField(Head(todo))
         completed == findCompletedTasks(store, field, ok)
     IN /\ candidates' = IF dryRun \/ Len(completed) = 0 THEN << >> ELSE completed
        /\ idx' = IF dryRun \/ Len(completed) = 0 THEN 0 ELSE 1
        /\ readFails \subseteq Range(completed)
        /\ ~dryRun => readFails = {}
        /\ IF dryRun
           THEN /\ pushCounts' = [NoPushCounts EXCEPT !.synced =
                     Cardinality({k \in 1..Len(completed) :
                        ~isAlreadySynced(store, completed[k], field, completed[k] \notin readFails)})]
                /\ pc' = "end"
           ELSE /\ pushCounts' = NoPushCounts
                /\ pc' = IF Len(completed) > 0 THEN "push" ELSE "end"
  /\ UNCHANGED << store, udas, todo, dryRun, tasks, fetchedExternalIds,
                  gidToUuid, counts, cyc, lastSearch, hist, pushLog, runs >>

\* syncCompletionsToThings / syncCompletionsToAsana, one iteration.  readOk:
\* the export of the record succeeds; writerOk: completeInThings /
\* completeInAsana succeeds; markOk: the modify setting the flag succeeds.
\* The Asana loop catches an error of the iteration and counts it; the
\* Things loop has no handler.
PushStep(readOk, writerOk, markOk) ==
  /\ pc = "push"
  /\ idx <= Len(candidates)
  /\ LET field == PhaseField(Head(todo))
         u == candidates[idx]
         last == idx = Len(candidates)
         next == IF last THEN "end" ELSE "push"
         nextIdx == IF last THEN 0 ELSE idx + 1
         nextCands == IF last THEN << >> ELSE candidates
     IN IF isAlreadySynced(store, u, field, readOk)
        THEN /\ pushCounts' = [pushCounts EXCEPT !.skipped = @ + 1]
             /\ pc' = next
             /\ idx' = nextIdx
             /\ candidates' = nextCands
             /\ UNCHANGED store
        ELSE /\ store' = IF writerOk /\ markOk THEN markAsSynced(store, u, field) ELSE store
             /\ IF writerOk /\ markOk
                THEN /\ pushCounts' = [pushCounts EXCEPT !.synced = @ + 1]
                     /\ pc' = next
                     /\ idx' = nextIdx
                     /\ candidates' = nextCands
                ELSE IF field = AsanaField
                THEN /\ pushCounts' = [pushCounts EXCEPT !.errors = @ + 1]
                     /\ pc' = next
                     /\ idx' = nextIdx
                     /\ candidates' = nextCands
                ELSE /\ pc' = "aborted"
                     /\ pushCounts' = NoPushCounts
                     /\ idx' = 0
                     /\ candidates' = << >>
  /\ UNCHANGED << udas, todo, dryRun, tasks, fetchedExternalIds,
                  gidToUuid, counts, cyc, lastSearch, hist, runs >>

\* ------------------------------------------------------- specification
Next ==
  \/ \E u \in 1..MaxRecords : LocalDone(u)
  \/ \E u \in 1..MaxRecords : LocalWait(u)
  \/ \E cmd \in Commands, dry \in BOOLEAN : StartCommand(cmd, dry)
  \/ \E ok \in BOOLEAN : EnsureUdas(ok)
  \/ FetchFail
  \/ \E open \in SUBSET Ids, alt \in BOOLEAN, subInList \in BOOLEAN, subFail \in BOOLEAN :
       FetchOk(open, alt, subInList, subFail)
  \/ \E enabled \in BOOLEAN, reply \in [ThingsIds -> ClassifierReplies] :
       Filter(enabled, reply)
  \/ \E r \in Replies : UpsertStep(r)
  \/ \E fails \in SUBSET (1..3) : Link(fails)
  \/ \E pendingOk \in BOOLEAN, waitingOk \in BOOLEAN, fails \in SUBSET (1..MaxRecords) :
       Stale(pendingOk, waitingOk, fails)
  \/ \E ok \in BOOLEAN, readFails \in SUBSET (1..MaxRecords) : Scan(ok, readFails)
  \/ \E readOk \in BOOLEAN, writerOk \in BOOLEAN, markOk \in BOOLEAN :
       PushStep(readOk, writerOk, markOk) /\ UNCHANGED pushLog
  \/ \E isSync \in BOOLEAN : FinishPhase(isSync)
  \/ Exit

Spec == Init /\ [][Next]_vars

\* ------------------------------------------- upsertTask called directly
\* SpecUpsert: up to two upsertTask calls in a row on a store that starts
\* empty, with local status changes before, between and after them.  The
\* tasks are built by buildTaskData; the Things task has one of two
\* descriptions and one of three tag lists, or a project, and every task
\* has one note.
UpsertNote == << SP, "a", SP >>

UpsertData(id, description, tags) ==
  buildTaskData([description |-> description,
                 externalIdField |-> FieldOfId(id),
                 externalId |-> id,
                 source |-> IF id \in ThingsIds THEN "things3" ELSE "asana",
                 sourceTag |-> IF id \in ThingsIds THEN ThingsTag ELSE AsanaTag,
                 project |-> "",
                 due |-> "",
                 priority |-> "",
                 tags |-> tags,
                 annotations |-> << UpsertNote >>])

UpsertInputs ==
  {[id |-> "t1", data |-> UpsertData("t1", d, SourceTags("t1", alt))] :
     d \in {"d", "e"}, alt \in BOOLEAN}
  \cup {[id |-> "t1", data |-> UpsertData("t1", d, << >>)] : d \in {"d", "e"}}
  \cup {[id |-> AsanaParent, data |-> UpsertData(AsanaParent, "d", << >>)]}
  \cup {[id |-> "t1", data |-> [UpsertData("t1", "d", << >>) EXCEPT !.project = "p"]]}

UpsertCall(in, r) ==
  /\ pc = "idle"
  /\ Len(hist) <= 1
  /\ LET field == FieldOfId(in.id)
         res == upsertTask(store, field, in.id, in.data, r)
     IN /\ Len(res.store) <= MaxRecords
        /\ store' = res.store
        /\ hist' = Append(hist,
                      [id |-> in.id, data |-> in.data, r |-> r,
                       fresh |-> Len(Matching(store, "pending", field, in.id)) = 0
                                 /\ Len(Matching(store, "waiting", field, in.id)) = 0,
                       search |-> SearchKind(store, field, in.id, r),
                       outcome |-> res.outcome, uuid |-> res.uuid,
                       adds |-> res.adds, modifies |-> res.modifies,
                       annotates |-> res.annotates, payload |-> res.payload,
                       touched |-> FALSE])
  /\ UNCHANGED << udas, todo, dryRun, pc, loopVars, cyc, lastSearch, pushLog, runs >>

\* The replies within one direct call: at most one command gets a reply
\* other than the regular one, or only the two searches do.
UpsertReplies ==
  Replies \cup {r \in AllReplies : r.add = "ok" /\ r.modify = "ok" /\ r.annotate = 0}

NextUpsert ==
  \/ \E in \in UpsertInputs, r \in UpsertReplies : UpsertCall(in, r)
  \/ \E u \in 1..MaxRecords : LocalDone(u)
  \/ \E u \in 1..MaxRecords : LocalWait(u)

SpecUpsert == Init /\ [][NextUpsert]_vars

\* ------------------------------------------------- the push cycles alone
\* SpecPush: the `push` command run again and again on a store that holds
\* up to MaxRecords records imported earlier, each for its own task (two
\* Things tasks and two Asana tasks may have been imported); the user marks
\* records done between the commands.
PushThingsIds == {"t1", "t2"}
PushIds == PushThingsIds \cup AsanaIds
PushFieldOfId(id) == IF id \in PushThingsIds THEN ThingsField ELSE AsanaField

\* The record that a pull created for a task.
ImportedRecord(id) ==
  NewRecord(PushFieldOfId(id), id,
            buildTaskData([description |-> id,
                           externalIdField |-> PushFieldOfId(id),
                           externalId |-> id,
                           source |-> IF id \in PushThingsIds THEN "things3" ELSE "asana",
                           sourceTag |-> IF id \in PushThingsIds THEN ThingsTag ELSE AsanaTag,
                           project |-> "",
                           due |-> "",
                           priority |-> "",
                           tags |-> << >>,
                           annotations |-> << >>]))

ImportedStores ==
  {[i \in 1..Len(ids) |-> ImportedRecord(ids[i])] :
     ids \in {q \in UNION {[1..n -> PushIds] : n \in 0..MaxRecords} :
                \A i, j \in 1..Len(q) : q[i] = q[j] => i = j}}

InitPush ==
  /\ store \in ImportedStores
  /\ udas = TRUE
  /\ todo = << >>
  /\ dryRun = FALSE
  /\ pc = "idle"
  /\ tasks = << >>
  /\ fetchedExternalIds = {}
  /\ idx = 0
  /\ gidToUuid = NoGids
  /\ counts = NoCounts
  /\ candidates = << >>
  /\ pushCounts = NoPushCounts
  /\ cyc = NoCyc
  /\ lastSearch = "none"
  /\ hist = NoHist
  /\ pushLog = NoPushLog
  /\ runs = NoRuns

\* History of one iteration of the push loop: whether the candidate was
\* skipped or the Completion Writer was called for it, with what outcome,
\* and the records for which the writer has succeeded so far.
LogPush(readOk, writerOk) ==
  LET u == candidates[idx]
      skipped == isAlreadySynced(store, u, PhaseField(Head(todo)), readOk)
  IN [last |-> IF skipped THEN "skipped" ELSE IF writerOk THEN "ok" ELSE "failed",
      u |-> u,
      written |-> IF ~skipped /\ writerOk THEN pushLog.written \cup {u}
                  ELSE pushLog.written]

NextPush ==
  \/ \E u \in 1..MaxRecords : LocalDone(u)
  \/ \E dry \in BOOLEAN : StartCommand("push", dry)
  \/ \E ok \in BOOLEAN, readFails \in SUBSET (1..MaxRecords) : Scan(ok, readFails)
  \/ \E readOk \in BOOLEAN, writerOk \in BOOLEAN, markOk \in BOOLEAN :
       PushStep(readOk, writerOk, markOk) /\ pushLog' = LogPush(readOk, writerOk)
  \/ FinishPhase(FALSE)
  \/ Exit

SpecPush == InitPush /\ [][NextPush]_vars

\* SpecPushLive: push cycles keep recurring.  The store answers every
\* command, so that the Completion Writer is the only thing that may fail;
\* a real `push` command is started again and again, and every started
\* loop, phase and command runs on to its end.
PushLoop ==
  \E writerOk \in BOOLEAN :
    PushStep(TRUE, writerOk, TRUE) /\ pushLog' = LogPush(TRUE, writerOk)

NextPushLive ==
  \/ \E u \in 1..MaxRecords : LocalDone(u)
  \/ StartCommand("push", FALSE)
  \/ Scan(TRUE, {})
  \/ PushLoop
  \/ FinishPhase(FALSE)
  \/ Exit

SpecPushLive ==
  /\ InitPush /\ [][NextPushLive]_vars
  /\ WF_vars(StartCommand("push", FALSE))
  /\ WF_vars(Scan(TRUE, {}))
  /\ WF_vars(PushLoop)
  /\ WF_vars(FinishPhase(FALSE))
  /\ WF_vars(Exit)

\* --------------------------------------------------- overlapping runs
\* SpecOverlap: two runs of the Things pull (two processes, such as the
\* periodic run and one started by hand) on one store.  The store executes
\* one command at a time, so the commands of the two runs interleave; every
\* command is answered regularly.  A run is its fetch, then for each task
\* the identity search and the create or modify command of upsertTask, then
\* stale detection.
RunIds == {1, 2}
OverlapField == ThingsField
IdleRun == [pc |-> "idle", list |-> << >>, i |-> 0, found |-> 0, existing |-> << >>]

\* The fetches a run may get: nothing open, or t1 with either tag list.
OverlapLists == {fetchThingsTasks(open, alt) : open \in SUBSET ThingsIds, alt \in BOOLEAN}

InitOverlap ==
  /\ store = << >>
  /\ udas = TRUE
  /\ todo = << >>
  /\ dryRun = FALSE
  /\ pc = "idle"
  /\ tasks = << >>
  /\ fetchedExternalIds = {}
  /\ idx = 0
  /\ gidToUuid = NoGids
  /\ counts = NoCounts
  /\ candidates = << >>
  /\ pushCounts = NoPushCounts
  /\ cyc = NoCyc
  /\ lastSearch = "none"
  /\ hist = NoHist
  /\ pushLog = NoPushLog
  /\ runs = [p \in RunIds |-> IdleRun]

mainVars == << udas, todo, dryRun, pc, loopVars, cyc, lastSearch, hist, pushLog >>

\* syncSource up to the upsert loop: the run has fetched its list.
OverlapStart(p, list) ==
  /\ runs[p].pc = "idle"
  /\ runs' = [runs EXCEPT ![p] = [IdleRun EXCEPT !.pc = IF Len(list) > 0 THEN "search" ELSE "stale",
                                                 !.list = list, !.i = 1]]
  /\ UNCHANGED << store, mainVars >>

\* upsertTask, the identity search: the record found is the one exported
\* at this moment.
OverlapSearch(p) ==
  /\ runs[p].pc = "search"
  /\ LET t == runs[p].list[runs[p].i]
         taskData == DataOf(t.id, t.alt)
         f == findByExternalId(store, OverlapField, FieldValue(taskData, OverlapField), AllOk)
     IN runs' = [runs EXCEPT ![p].pc = "apply",
                             ![p].found = f.uuid,
                             ![p].existing = IF f.uuid # 0 THEN << store[f.uuid] >> ELSE << >>]
  /\ UNCHANGED << store, mainVars >>

\* upsertTask after the search: the modify command for the record found
\* (when the task differs from what was exported), or the add command.
OverlapApply(p) ==
  /\ runs[p].pc = "apply"
  /\ LET t == runs[p].list[runs[p].i]
         taskData == DataOf(t.id, t.alt)
         found == runs[p].found
         updates == Updates(runs[p].existing[1], taskData)
     IN /\ IF found # 0
           THEN store' = IF updates # {}
                         THEN [store EXCEPT ![found] = Modified(@, taskData, updates)]
                         ELSE store
           ELSE /\ Len(store) < MaxRecords
                /\ store' = Append(store, NewRecord(OverlapField,
                                                    FieldValue(taskData, OverlapField), taskData))
        /\ runs' = [runs EXCEPT ![p].pc = IF runs[p].i = Len(runs[p].list) THEN "stale" ELSE "search",
                                ![p].i = @ + 1,
                                ![p].found = 0,
                                ![p].existing = << >>]
  /\ UNCHANGED mainVars

\* syncSource, stale detection, which ends the run.
OverlapStale(p) ==
  /\ runs[p].pc = "stale"
  /\ LET twTasks == findAllPendingBySource(store, OverlapField, TRUE, TRUE)
         ref == CapturedIds(runs[p].list, OverlapField)
         stale == {twTasks[k] : k \in {j \in 1..Len(twTasks) :
                                  FieldValue(store[twTasks[j]], OverlapField) \notin ref}}
     IN store' = [u \in 1..Len(store) |->
                    IF u \in stale THEN completeTask(store, u)[u] ELSE store[u]]
  /\ runs' = [runs EXCEPT ![p] = IdleRun]
  /\ UNCHANGED mainVars

NextOverlap ==
  \/ \E p \in RunIds, list \in OverlapLists : OverlapStart(p, list)
  \/ \E p \in RunIds : OverlapSearch(p)
  \/ \E p \in RunIds : OverlapApply(p)
  \/ \E p \in RunIds : OverlapStale(p)

SpecOverlap == InitOverlap /\ [][NextOverlap]_vars

\* ------------------------------------------- filterTasks called directly
\* SpecFilter: one filterTasks call on a list of up to MaxBatch tasks, each
\* one of two Things tasks (a task may be in the list twice), the service
\* answering each request in any of its ways.
FilterEntries == {Entry(id, "", FALSE) : id \in PushThingsIds}
FilterInputs == UNION {[1..n -> FilterEntries] : n \in 0..MaxBatch}

InitFilter ==
  /\ store = << >>
  /\ udas = FALSE
  /\ todo = << >>
  /\ dryRun = FALSE
  /\ pc = "idle"
  /\ tasks \in FilterInputs
  /\ fetchedExternalIds = {}
  /\ idx = 0
  /\ gidToUuid = NoGids
  /\ counts = NoCounts
  /\ candidates = << >>
  /\ pushCounts = NoPushCounts
  /\ cyc = NoCyc
  /\ lastSearch = "none"
  /\ hist = NoHist
  /\ pushLog = NoPushLog
  /\ runs = NoRuns

FilterCall(answers) ==
  /\ pc = "idle"
  /\ Len(hist) = 0
  /\ hist' = << [input |-> tasks, answers |-> answers,
                 out |-> FilterRun(tasks, 1, answers, NoFilterRun)] >>
  /\ UNCHANGED << store, udas, todo, dryRun, pc, loopVars, cyc, lastSearch, pushLog, runs >>

NextFilter ==
  \E answers \in [1..Len(tasks) -> ClassifierReplies] : FilterCall(answers)

SpecFilter == InitFilter /\ [][NextFilter]_vars

\* ----------------------------------------- buildTaskData called directly
\* SpecBuild: one buildTaskData call, for either source, on up to MaxTags
\* tags, each the source tag or another one, with any of five priorities
\* and with or without a project.
BuildOpts ==
  {[description |-> "d",
    externalIdField |-> FieldOfId(id),
    externalId |-> id,
    source |-> IF id \in ThingsIds THEN "things3" ELSE "asana",
    sourceTag |-> IF id \in ThingsIds THEN ThingsTag ELSE AsanaTag,
    project |-> project,
    due |-> "",
    priority |-> priority,
    tags |-> tags,
    annotations |-> << >>] :
     id \in {"t1", AsanaParent},
     project \in {"", "p"},
     priority \in {"", "H", "M", "L", "CRITICAL"},
     tags \in UNION {[1..n -> {ThingsTag, AsanaTag, << "w" >>}] : n \in 0..MaxTags}}

InitBuild ==
  /\ store = << >>
  /\ udas = FALSE
  /\ todo = << >>
  /\ dryRun = FALSE
  /\ pc = "idle"
  /\ tasks = << >>
  /\ fetchedExternalIds = {}
  /\ idx = 0
  /\ gidToUuid = NoGids
  /\ counts = NoCounts
  /\ candidates = << >>
  /\ pushCounts = NoPushCounts
  /\ cyc = NoCyc
  /\ lastSearch = "none"
  /\ hist \in {<< [opts |-> o, built |-> FALSE, data |-> o] >> : o \in BuildOpts}
  /\ pushLog = NoPushLog
  /\ runs = NoRuns

BuildCall ==
  /\ pc = "idle"
  /\ ~hist[1].built
  /\ hist' = << [hist[1] EXCEPT !.built = TRUE, !.data = buildTaskData(hist[1].opts)] >>
  /\ UNCHANGED << store, udas, todo, dryRun, pc, loopVars, cyc, lastSearch, pushLog, runs >>

NextBuild == BuildCall

SpecBuild == InitBuild /\ [][NextBuild]_vars

\* ------------------------------------- the create path of upsertTask
\* SpecCreate: one upsertTask call for a task that has no record, with up
\* to MaxNotes annotations, each empty, blank, padded, plain or longer
\* than the cap; the searches return nothing, the add command and the
\* annotate commands answer in any of their ways.
LongNote == [i \in 1..(AnnotationCap + 1) |-> "a"]
CreateNotes == {<< >>, << SP, SP >>, << SP, "a", SP >>, << "s" >>, LongNote}
CreateInputs ==
  {[UpsertData("t1", "d", << >>) EXCEPT !.annotations = notes] :
     notes \in UNION {[1..n -> CreateNotes] : n \in 0..MaxNotes}}
CreateReplies ==
  {r \in AllReplies : r.pending = "ok" /\ r.waiting = "ok" /\ r.modify = "ok"}

InitCreate ==
  /\ store = << >>
  /\ udas = TRUE
  /\ todo = << >>
  /\ dryRun = FALSE
  /\ pc = "idle"
  /\ tasks = << >>
  /\ fetchedExternalIds = {}
  /\ idx = 0
  /\ gidToUuid = NoGids
  /\ counts = NoCounts
  /\ candidates = << >>
  /\ pushCounts = NoPushCounts
  /\ cyc = NoCyc
  /\ lastSearch = "none"
  /\ hist \in {<< [data |-> d, called |-> FALSE, r |-> AllOk, outcome |-> "none",
                    uuid |-> 0, adds |-> 0, annotates |-> 0] >> : d \in CreateInputs}
  /\ pushLog = NoPushLog
  /\ runs = NoRuns

CreateCall(r) ==
  /\ pc = "idle"
  /\ ~hist[1].called
  /\ LET res == upsertTask(store, ThingsField, "t1", hist[1].data, r)
     IN /\ store' = res.store
        /\ hist' = << [hist[1] EXCEPT !.called = TRUE, !.r = r, !.outcome = res.outcome,
                                      !.uuid = res.uuid, !.adds = res.adds,
                                      !.annotates = res.annotates] >>
  /\ UNCHANGED << udas, todo, dryRun, pc, loopVars, cyc, lastSearch, pushLog, runs >>

NextCreate == \E r \in CreateReplies : CreateCall(r)

SpecCreate == InitCreate /\ [][NextCreate]_vars

\* ------------------------------------------ the on-exit hook and a push
\* SpecHook: the user marks records done; each `task done` starts the
\* on-exit hook with the line of the changed task, and `push` commands run
\* at any time beside the hooks.  The store holds up to MaxRecords records
\* imported earlier and answers every command; a Completion Writer call
\* may fail.  pushLog is here the list of the Completion Writer calls made,
\* at most MaxCalls of them: who called, for which record, the field of the
\* source, the identity passed and whether the call succeeded.
HookIdle == [pc |-> "idle", u |-> 0, task |-> << >>]
hookFrame == << udas, todo, dryRun, pc, loopVars, cyc, lastSearch, hist >>

InitHook ==
  /\ store \in ImportedStores
  /\ udas = TRUE
  /\ todo = << >>
  /\ dryRun = FALSE
  /\ pc = "idle"
  /\ tasks = << >>
  /\ fetchedExternalIds = {}
  /\ idx = 0
  /\ gidToUuid = NoGids
  /\ counts = NoCounts
  /\ candidates = << >>
  /\ pushCounts = NoPushCounts
  /\ cyc = NoCyc
  /\ lastSearch = "none"
  /\ hist = NoHist
  /\ pushLog = << >>
  /\ runs = HookIdle

WriterCall(by, u, udaName, id, ok) ==
  [by |-> by, u |-> u, field |-> udaName, id |-> id, ok |-> ok]

\* `task <uuid> done` by the user: the record is completed and the hook is
\* started with the line of the task as it is now.
TaskDone(u) ==
  /\ runs.pc = "idle"
  /\ u \in 1..Len(store)
  /\ store[u].status \in {"pending", "waiting"}
  /\ store' = completeTask(store, u)
  /\ runs' = [pc |-> "things", u |-> u, task |-> << completeTask(store, u)[u] >>]
  /\ UNCHANGED << hookFrame, pushLog >>

\* The hook's test of a line for one source: the source is configured, the
\* task of the line is completed, carries the identity and is not flagged.
HookWants(task, udaName, configured) ==
  /\ configured
  /\ task.status = "completed"
  /\ FieldValue(task, udaName) # ""
  /\ ~SyncedFlag(task, udaName)

\* hook main loop, the Things part for the line: an error of
\* completeInThings is caught around the whole line, which ends it.
HookThings(configured, writerOk) ==
  /\ runs.pc = "things"
  /\ LET task == runs.task[1]
     IN IF HookWants(task, ThingsField, configured)
        THEN /\ Len(pushLog) < MaxCalls
             /\ pushLog' = Append(pushLog,
                               WriterCall("hook", runs.u, ThingsField, task.things3_uuid, writerOk))
             /\ store' = IF writerOk THEN markAsSynced(store, runs.u, ThingsField) ELSE store
             /\ runs' = IF writerOk THEN [runs EXCEPT !.pc = "asana"] ELSE HookIdle
        ELSE /\ runs' = [runs EXCEPT !.pc = "asana"]
             /\ UNCHANGED << store, pushLog >>
  /\ UNCHANGED hookFrame

\* hook main loop, the Asana part for the line, with its own handler.
HookAsana(configured, writerOk) ==
  /\ runs.pc = "asana"
  /\ LET task == runs.task[1]
     IN IF HookWants(task, AsanaField, configured)
        THEN /\ Len(pushLog) < MaxCalls
             /\ pushLog' = Append(pushLog,
                               WriterCall("hook", runs.u, AsanaField, task.asana_gid, writerOk))
             /\ store' = IF writerOk THEN markAsSynced(store, runs.u, AsanaField) ELSE store
        ELSE UNCHANGED << store, pushLog >>
  /\ runs' = HookIdle
  /\ UNCHANGED hookFrame

\* One iteration of the push loop, its Completion Writer call listed.
HookPushStep(writerOk) ==
  /\ PushStep(TRUE, writerOk, TRUE)
  /\ LET field == PhaseField(Head(todo))
         u == candidates[idx]
     IN IF isAlreadySynced(store, u, field, TRUE)
        THEN UNCHANGED pushLog
        ELSE /\ Len(pushLog) < MaxCalls
             /\ pushLog' = Append(pushLog,
                               WriterCall("push", u, field, FieldValue(store[u], field), writerOk))

NextHook ==
  \/ \E u \in 1..MaxRecords : TaskDone(u)
  \/ \E configured \in BOOLEAN, writerOk \in BOOLEAN : HookThings(configured, writerOk)
  \/ \E configured \in BOOLEAN, writerOk \in BOOLEAN : HookAsana(configured, writerOk)
  \/ StartCommand("push", FALSE)
  \/ Scan(TRUE, {})
  \/ \E writerOk \in BOOLEAN : HookPushStep(writerOk)
  \/ FinishPhase(FALSE)
  \/ Exit

SpecHook == InitHook /\ [][NextHook]_vars

\* ---------------------------------------------- stale detection alone
\* SpecStale: the stale detection of a real run for either source, on a
\* store of up to MaxRecords records imported earlier and any set of
\* fetched identities; each of the two listings may return malformed
\* output and any of the completeTask calls may throw.
InitStale ==
  /\ store \in ImportedStores
  /\ udas = TRUE
  /\ todo = << >>
  /\ dryRun = FALSE
  /\ pc = "idle"
  /\ tasks = << >>
  /\ fetchedExternalIds = {}
  /\ idx = 0
  /\ gidToUuid = NoGids
  /\ counts = NoCounts
  /\ candidates = << >>
  /\ pushCounts = NoPushCounts
  /\ cyc = NoCyc
  /\ lastSearch = "none"
  /\ hist \in {<< [field |-> f, fetched |-> ref, start |-> store, called |-> FALSE,
                    pendingOk |-> TRUE, waitingOk |-> TRUE, listed |-> {},
                    fails |-> {}, staleCount |-> 0] >> :
                  f \in {ThingsField, AsanaField}, ref \in SUBSET PushIds}
  /\ pushLog = NoPushLog
  /\ runs = NoRuns

StaleCall(pendingOk, waitingOk, fails) ==
  /\ pc = "idle"
  /\ ~hist[1].called
  /\ LET field == hist[1].field
         twTasks == findAllPendingBySource(store, field, pendingOk, waitingOk)
         loop == StaleLoop(store, twTasks, 1, field, hist[1].fetched, fails, FALSE)
     IN /\ fails \subseteq {twTasks[k] : k \in 1..Len(twTasks)}
        /\ \A u \in fails : FieldValue(store[u], field) \notin hist[1].fetched
        /\ store' = loop.store
        /\ hist' = << [hist[1] EXCEPT !.called = TRUE, !.fails = fails,
                                      !.pendingOk = pendingOk, !.waitingOk = waitingOk,
                                      !.listed = {twTasks[k] : k \in 1..Len(twTasks)},
                                      !.staleCount = loop.staleCount] >>
  /\ UNCHANGED << udas, todo, dryRun, pc, loopVars, cyc, lastSearch, pushLog, runs >>

NextStale ==
  \E pendingOk \in BOOLEAN, waitingOk \in BOOLEAN, fails \in SUBSET (1..MaxRecords) :
    StaleCall(pendingOk, waitingOk, fails)

SpecStale == InitStale /\ [][NextStale]_vars

\* ------------------------------------------- a cycle that is interrupted
\* SpecRecover: an Asana cycle of a real run whose process is ended between
\* two store commands, and then one complete cycle with the same fetch
\* result, every command answered regularly.  The fetch result is the
\* parent a1, with one of two names and up to MaxNotes annotations, alone
\* or followed by its subtask a2; the store at the start is empty or left
\* by an earlier complete cycle.
RecoverTask(id, description, notes, parent) ==
  [id |-> id, parent |-> parent,
   data |-> [UpsertData(id, description, << >>) EXCEPT !.annotations = notes]]

RecoverNotes == {SubSeq(<< UpsertNote, << "s" >> >>, 1, n) : n \in 0..MaxNotes}

RecoverLists ==
  {<< RecoverTask(AsanaParent, d, notes, "") >> : d \in {"d", "e"}, notes \in RecoverNotes}
  \cup {<< RecoverTask(AsanaParent, d, notes, ""),
           RecoverTask(AsanaSub, "d", sub, AsanaParent) >> :
          d \in {"d", "e"}, notes \in RecoverNotes, sub \in {<< >>, << UpsertNote >>}}

\* The upsert loop from entry i on, every command answered regularly: the
\* store it leaves and the identity index it builds.
RECURSIVE RecoverUpserts(_, _, _, _)
RecoverUpserts(st, list, i, g) ==
  IF i > Len(list) THEN [store |-> st, g |-> g]
  ELSE LET res == upsertTask(st, AsanaField, list[i].id, list[i].data, AllOk)
       IN RecoverUpserts(res.store, list, i + 1,
                         IF res.uuid # 0 THEN [g EXCEPT ![list[i].id] = res.uuid] ELSE g)

\* The linking loop and the stale detection, every command answered
\* regularly.
RecoverLink(st, list, g) == LinkFrom(st, list, 1, g, {})

RecoverStale(st, list) ==
  LET twTasks == findAllPendingBySource(st, AsanaField, TRUE, TRUE)
      fetchedIds == {list[i].id : i \in 1..Len(list)}
      stale == {twTasks[k] : k \in {j \in 1..Len(twTasks) :
                               FieldValue(st[twTasks[j]], AsanaField) \notin fetchedIds}}
  IN [u \in 1..Len(st) |-> IF u \in stale THEN completeTask(st, u)[u] ELSE st[u]]

\* A complete cycle.
RecoverCycle(st, list) ==
  LET up == RecoverUpserts(st, list, 1, NoGids)
  IN RecoverStale(RecoverLink(up.store, list, up.g), list)

\* The number of store commands that change the store in an upsertTask
\* call: the modify command, or the create command and the annotate
\* commands.
MutatingCommands(st, task) ==
  LET f == findByExternalId(st, AsanaField, task.id, AllOk)
  IN IF f.uuid # 0
     THEN (IF Updates(st[f.uuid], task.data) # {} THEN 1 ELSE 0)
     ELSE 1 + Len(AnnotateTexts(task.data.annotations))

\* upsertTask ended after its first n commands that change the store.
InterruptedUpsert(st, task, n) ==
  LET f == findByExternalId(st, AsanaField, task.id, AllOk)
  IN IF n = 0 THEN st
     ELSE IF f.uuid # 0 THEN upsertTask(st, AsanaField, task.id, task.data, AllOk).store
     ELSE Append(st, [NewRecord(AsanaField, task.id, task.data) EXCEPT
                        !.annotations = SubSeq(AnnotateTexts(task.data.annotations), 1, n - 1)])

\* The cycle ended in the upsert of entry i after n changing commands of
\* that call (at = "upsert"), after the upsert loop (at = "link"), or after
\* the linking loop (at = "stale").
InterruptedCycle(st, list, at, i, n) ==
  LET up == RecoverUpserts(st, list, 1, NoGids)
  IN IF at = "upsert"
     THEN InterruptedUpsert(RecoverUpserts(st, SubSeq(list, 1, i - 1), 1, NoGids).store, list[i], n)
     ELSE IF at = "link" THEN up.store
     ELSE RecoverLink(up.store, list, up.g)

RecoverStarts == {<< >>} \cup {RecoverCycle(<< >>, l) : l \in RecoverLists}

InitRecover ==
  /\ store \in RecoverStarts
  /\ udas = TRUE
  /\ todo = << >>
  /\ dryRun = FALSE
  /\ pc = "idle"
  /\ tasks = << >>
  /\ fetchedExternalIds = {}
  /\ idx = 0
  /\ gidToUuid = NoGids
  /\ counts = NoCounts
  /\ candidates = << >>
  /\ pushCounts = NoPushCounts
  /\ cyc = NoCyc
  /\ lastSearch = "none"
  /\ hist \in {<< [list |-> l, start |-> store, at |-> "none", recovered |-> FALSE] >> :
                  l \in RecoverLists}
  /\ pushLog = NoPushLog
  /\ runs = NoRuns

Interrupt(at, i, n) ==
  /\ pc = "idle"
  /\ hist[1].at = "none"
  /\ at = "upsert" =>
       /\ i \in 1..Len(hist[1].list)
       /\ n < MutatingCommands(RecoverUpserts(store, SubSeq(hist[1].list, 1, i - 1), 1, NoGids).store,
                               hist[1].list[i])
  /\ at # "upsert" => (i = 1 /\ n = 0)
  /\ Len(InterruptedCycle(store, hist[1].list, at, i, n)) <= MaxRecords
  /\ store' = InterruptedCycle(store, hist[1].list, at, i, n)
  /\ hist' = << [hist[1] EXCEPT !.at = at] >>
  /\ UNCHANGED << udas, todo, dryRun, pc, loopVars, cyc, lastSearch, pushLog, runs >>

CompleteCycle ==
  /\ pc = "idle"
  /\ hist[1].at # "none"
  /\ ~hist[1].recovered
  /\ Len(RecoverCycle(store, hist[1].list)) <= MaxRecords
  /\ store' = RecoverCycle(store, hist[1].list)
  /\ hist' = << [hist[1] EXCEPT !.recovered = TRUE] >>
  /\ UNCHANGED << udas, todo, dryRun, pc, loopVars, cyc, lastSearch, pushLog, runs >>

NextRecover ==
  \/ \E at \in {"upsert", "link", "stale"}, i \in 1..MaxRecords, n \in 0..MaxNotes :
       Interrupt(at, i, n)
  \/ CompleteCycle

SpecRecover == InitRecover /\ [][NextRecover]_vars

\* ------------------------------------------- classifyTask on reply texts
\* SpecClassify: one classifyTask call whose request is rejected, answered
\* with a body that is not JSON, with a JSON object without a response
\* field, or with a response text of up to MaxReply characters.
ClassifyBodies ==
  {[kind |-> k, text |-> << >>] : k \in {"rejected", "notjson", "nofield"}}
    \cup {[kind |-> "text", text |-> t] :
            t \in UNION {[1..n -> ReplyChars] : n \in 0..MaxReply}}

InitClassify ==
  /\ store = << >>
  /\ udas = FALSE
  /\ todo = << >>
  /\ dryRun = FALSE
  /\ pc = "idle"
  /\ tasks = << >>
  /\ fetchedExternalIds = {}
  /\ idx = 0
  /\ gidToUuid = NoGids
  /\ counts = NoCounts
  /\ candidates = << >>
  /\ pushCounts = NoPushCounts
  /\ cyc = NoCyc
  /\ lastSearch = "none"
  /\ hist \in {<< [body |-> b, called |-> FALSE, threw |-> FALSE, keep |-> FALSE] >> :
               b \in ClassifyBodies}
  /\ pushLog = NoPushLog
  /\ runs = NoRuns

ClassifyCall ==
  /\ pc = "idle"
  /\ ~hist[1].called
  /\ LET result == classifyBody(hist[1].body)
     IN hist' = << [hist[1] EXCEPT !.called = TRUE,
                                   !.threw = result.threw,
                                   !.keep = result.keep] >>
  /\ UNCHANGED << store, udas, todo, dryRun, pc, loopVars, cyc, lastSearch, pushLog, runs >>

NextClassify == ClassifyCall

SpecClassify == InitClassify /\ [][NextClassify]_vars

\* ------------------------------------------------- a cycle run twice
\* SpecRepeat: two cycles of a real run for one source in a row, with the
\* identical fetch result, no filter and every command answered regularly,
\* on a store that is empty or was imported earlier.  The fetch results are
\* those of fetchThingsTasks and fetchAsanaTasks; an Asana result lists the
\* subtask a2 twice when a2 is also in the user's task list.
RepeatLists ==
  {[field |-> ThingsField, list |-> fetchThingsTasks(open, alt)] :
     open \in SUBSET ThingsIds, alt \in BOOLEAN}
  \cup {[field |-> AsanaField, list |-> fetchAsanaTasks(open, subInList, FALSE)] :
          open \in SUBSET AsanaIds, subInList \in BOOLEAN}

NoReport == [created |-> 0, updated |-> 0, skipped |-> 0, adds |-> 0,
             modifies |-> 0, staleCount |-> 0]

\* The upsert loop from entry i on: the store it leaves, the identity index
\* and the counts, with the numbers of add and modify commands issued.
\* The result of each call is bound once (res, up, run range over the
\* singleton of the call's result).
RECURSIVE RepeatUpserts(_, _, _, _, _)
RepeatUpserts(st, field, ts, i, acc) ==
  IF i > Len(ts) THEN [acc EXCEPT !.store = st]
  ELSE LET taskData == DataOf(ts[i].id, ts[i].alt)
           externalId == FieldValue(taskData, field)
       IN CHOOSE out \in
            {RepeatUpserts(res.store, field, ts, i + 1,
                           [acc EXCEPT !.report[res.outcome] = @ + 1,
                                       !.report.adds = @ + res.adds,
                                       !.report.modifies = @ + res.modifies,
                                       !.g[externalId] = IF res.uuid # 0 THEN res.uuid ELSE @]) :
               res \in {upsertTask(st, field, externalId, taskData, AllOk)}} : TRUE

\* One complete cycle: the store it leaves and what it reports.
RepeatCycle(st, field, ts) ==
  LET AfterUpserts(up) ==
        LET linked == LinkFrom(up.store, ts, 1, up.g, {})
            loop == StaleLoop(linked, findAllPendingBySource(linked, field, TRUE, TRUE), 1, field,
                              StaleReference(CapturedIds(ts, field), ts, field), {}, FALSE)
        IN [store |-> loop.store,
            report |-> [up.report EXCEPT !.staleCount = loop.staleCount]]
  IN CHOOSE out \in
       {AfterUpserts(up) :
          up \in {RepeatUpserts(st, field, ts, 1,
                                [store |-> st, g |-> NoGids, report |-> NoReport])}} : TRUE

InitRepeat ==
  /\ store \in ImportedStores
  /\ udas = TRUE
  /\ todo = << >>
  /\ dryRun = FALSE
  /\ pc = "idle"
  /\ tasks = << >>
  /\ fetchedExternalIds = {}
  /\ idx = 0
  /\ gidToUuid = NoGids
  /\ counts = NoCounts
  /\ candidates = << >>
  /\ pushCounts = NoPushCounts
  /\ cyc = NoCyc
  /\ lastSearch = "none"
  /\ hist \in {<< [field |-> l.field, list |-> l.list, cycles |-> 0,
                    first |-> NoReport, second |-> NoReport] >> : l \in RepeatLists}
  /\ pushLog = NoPushLog
  /\ runs = NoRuns

RunCycle ==
  /\ pc = "idle"
  /\ hist[1].cycles < 2
  /\ \E run \in {RepeatCycle(store, hist[1].field, hist[1].list)} :
        /\ Len(run.store) <= MaxRecords
        /\ store' = run.store
        /\ hist' = << [hist[1] EXCEPT !.cycles = @ + 1,
                                      !.first = IF hist[1].cycles = 0 THEN run.report ELSE @,
                                      !.second = IF hist[1].cycles = 1 THEN run.report ELSE @] >>
  /\ UNCHANGED << udas, todo, dryRun, pc, loopVars, cyc, lastSearch, pushLog, runs >>

NextRepeat == RunCycle

SpecRepeat == InitRepeat /\ [][NextRepeat]_vars

\* ------------------------------ completions of either origin and a push
\* SpecOrigin: records of a store imported earlier are completed by the
\* user (`task <uuid> done`) or by the stale detection of a real pull for
\* either source with any set of fetched identities, every command
\* answered regularly and no hook installed; `push` commands run in
\* between.  hist lists which records either origin completed; pushLog is
\* the list of the Completion Writer calls, as in SpecHook.
NoOrigins == << [stale |-> {}, user |-> {}] >>

InitOrigin ==
  /\ store \in ImportedStores
  /\ udas = TRUE
  /\ todo = << >>
  /\ dryRun = FALSE
  /\ pc = "idle"
  /\ tasks = << >>
  /\ fetchedExternalIds = {}
  /\ idx = 0
  /\ gidToUuid = NoGids
  /\ counts = NoCounts
  /\ candidates = << >>
  /\ pushCounts = NoPushCounts
  /\ cyc = NoCyc
  /\ lastSearch = "none"
  /\ hist = NoOrigins
  /\ pushLog = << >>
  /\ runs = NoRuns

\* `task <uuid> done` by the user.
UserDone(u) ==
  /\ pc = "idle"
  /\ u \in 1..Len(store)
  /\ store[u].status \in {"pending", "waiting"}
  /\ store' = completeTask(store, u)
  /\ hist' = << [hist[1] EXCEPT !.user = @ \cup {u}] >>
  /\ UNCHANGED << udas, todo, dryRun, pc, loopVars, cyc, lastSearch, pushLog, runs >>

\* The stale detection of a pull for the field whose fetch returned the
\* identities ref.
StaleDone(udaName, ref) ==
  /\ pc = "idle"
  /\ LET twTasks == findAllPendingBySource(store, udaName, TRUE, TRUE)
         loop == StaleLoop(store, twTasks, 1, udaName, ref, {}, FALSE)
     IN /\ loop.staleCount > 0
        /\ store' = loop.store
        /\ hist' = << [hist[1] EXCEPT !.stale =
                         @ \cup {u \in 1..Len(store) : loop.store[u] # store[u]}] >>
  /\ UNCHANGED << udas, todo, dryRun, pc, loopVars, cyc, lastSearch, pushLog, runs >>

NextOrigin ==
  \/ \E u \in 1..MaxRecords : UserDone(u)
  \/ \E udaName \in {ThingsField, AsanaField}, ref \in SUBSET PushIds : StaleDone(udaName, ref)
  \/ StartCommand("push", FALSE)
  \/ Scan(TRUE, {})
  \/ \E writerOk \in BOOLEAN : HookPushStep(writerOk)
  \/ FinishPhase(FALSE)
  \/ Exit

SpecOrigin == InitOrigin /\ [][NextOrigin]_vars

\* ------------------------------------------------------------ properties
\* The local records carrying an identity in one of the open statuses.
OpenRecords(st, id) ==
  {u \in 1..Len(st) : /\ st[u].status \in {"pending", "waiting"}
                      /\ FieldValue(st[u], FieldOfId(id)) = id}

\* The latest step was a faultless upsertTask pair: two calls in a row with
\* the identical task, nothing else touching the store in between, every
\* store command answered regularly.
SamePair ==
  /\ Len(hist) = 2
  /\ hist[1].fresh
  /\ ~hist[1].touched
  /\ hist[1].r = AllOk /\ hist[2].r = AllOk
  /\ hist[2].id = hist[1].id
  /\ hist[2].data = hist[1].data

\* C1: upsertTask called twice in a row with the identical task, for an
\* identity that had no pending or waiting record, returns "created" and
\* then "skipped", and issues exactly one `task add`.
C1_CreatedThenSkipped ==
  SamePair =>
    /\ hist[1].outcome = "created"
    /\ hist[2].outcome = "skipped"
    /\ hist[1].adds + hist[2].adds = 1

\* The current pull cycle's identity field.
CycleField == PhaseField(Head(todo))

InPull == Len(todo) > 0 /\ IsPull(Head(todo))

\* The local records carrying an identity, whatever their status.
Carriers(st, id) ==
  {u \in 1..Len(st) : FieldValue(st[u], FieldOfId(id)) = id}

OneOpenRecord(st) == \A id \in Ids : Cardinality(OpenRecords(st, id)) <= 1

C3_NoRecreation ==
  [][lastSearch' = "faithful" =>
       \A id \in Ids :
         Cardinality(Carriers(store', id)) > Cardinality(Carriers(store, id))
           => Carriers(store, id) = {}]_vars

\* C4: the step that ends a non-dry-run cycle whose fetch succeeded, when
\* neither an identity search nor a store command of its stale detection
\* failed, leaves no pending or waiting record of the source whose identity
\* is absent from the fetched set.
C4_StaleAllCompleted ==
  [][(/\ InPull /\ ~dryRun /\ cyc.fetch = "ok"
      /\ pc \in {"upsert", "stale"} /\ pc' \in {"end", "aborted"}
      /\ ~cyc'.staleFault /\ lastSearch' # "failed")
       => \A u \in 1..Len(store') :
            (/\ store'[u].status \in {"pending", "waiting"}
             /\ FieldValue(store'[u], CycleField) # "")
              => FieldValue(store'[u], CycleField) \in fetchedExternalIds]_vars

\* C5: a cycle whose fetch fails changes no record: nothing is changed
\* before the fetch, the failure leads straight to the end of the cycle with
\* no upsert counted, no identity indexed and no stale record counted, and
\* the step after it starts the next phase.
C5_FetchFailureChangesNothing ==
  [][/\ pc \in {"udas", "fetch"} => store' = store
     /\ cyc'.fetch = "failed" =>
          /\ pc' = "end"
          /\ store' = store
          /\ counts' = NoCounts /\ gidToUuid' = NoGids /\ cyc'.staleCount = 0
     /\ cyc.fetch = "failed" => store' = store /\ pc' \in {"udas", "scan", "exit"}]_vars

\* C5 witness: a fetch failed while a pending or waiting record of the
\* source exists, and the cycle is over.
C5_Witness ==
  /\ pc = "end" /\ InPull /\ ~dryRun /\ cyc.fetch = "failed"
  /\ \E u \in 1..Len(store) :
       store[u].status \in {"pending", "waiting"} /\ FieldValue(store[u], CycleField) # ""

\* C6: when stale detection starts, the identities excluded by the
\* classifier are among the captured ones, and stale detection changes no
\* record carrying one of them.
C6_ExcludedNotStale ==
  [][pc = "stale" =>
       /\ cyc.excluded \subseteq fetchedExternalIds
       /\ \A u \in 1..Len(store) :
            FieldValue(store[u], CycleField) \in cyc.excluded => store'[u] = store[u]]_vars

\* C6 witness: stale detection of a real run is over, the classifier
\* excluded a task, and the local record of that task is still open.
C6_Witness ==
  /\ pc = "end" /\ InPull /\ ~dryRun /\ cyc.excluded # {}
  /\ \E u \in 1..Len(store) :
       /\ FieldValue(store[u], CycleField) \in cyc.excluded
       /\ store[u].status \in {"pending", "waiting"}

\* C7: when the subtask request of an open parent failed, stale detection
\* completes no record whose task is still open at the source (cyc.missed:
\* the open tasks that the fetch did not return).
C7_PartialFetchNotStale ==
  [][(pc = "stale" /\ cyc.subFail) =>
       \A u \in 1..Len(store) :
         (store[u].status # "completed" /\ store'[u].status = "completed")
           => FieldValue(store[u], CycleField) \notin cyc.missed]_vars

\* C8: an upsert whose identity search did not fail (so that any failure
\* is one of add, modify or annotate) is followed by the next upsert or by
\* the linking: the cycle is not left.
C8_UpsertFailureIsolated ==
  [][(pc = "upsert" /\ lastSearch' # "failed") => pc' \in {"upsert", "link"}]_vars

\* C9: after a failed fetch the command goes on with its next phase (after
\* the first pull, with the pull of the other source) on an unchanged
\* store, and a pull changes no record that lacks its identity field.
C9_OtherSourceUnaffected ==
  [][/\ cyc.fetch = "failed" =>
          /\ store' = store
          /\ todo = PullPhases => (todo' = << "pullA" >> /\ pc' = "udas")
          /\ pc' \in {"udas", "scan", "exit"}
     /\ InPull =>
          \A u \in 1..Len(store) :
            FieldValue(store[u], CycleField) = "" => store'[u] = store[u]]_vars

\* C9 witness: the Things fetch of `all` or `sync` failed and its cycle is
\* over, with an open Things record and an open Asana record in the store.
C9_Witness ==
  /\ pc = "end" /\ todo = PullPhases /\ cyc.fetch = "failed" /\ ~dryRun
  /\ \E u, v \in 1..Len(store) :
       /\ store[u].things3_uuid # "" /\ store[u].status \in {"pending", "waiting"}
       /\ store[v].asana_gid # "" /\ store[v].status \in {"pending", "waiting"}

C10_NoFatalError == pc # "aborted"

\* C11: when the classifier failed for a task of the batch (the service was
\* unreachable, timed out, or gave an error reply), the filtering excludes
\* no task: the fetched list goes to the reconciler whole.
C11_ClassifierFailOpen ==
  [][(pc = "filter" /\ cyc'.classFail) => (tasks' = tasks /\ cyc'.excluded = {})]_vars

\* The candidate of the current iteration of the push loop.
PushCandidate == candidates[idx]

\* C12: an iteration of a push loop whose candidate already carries the
\* synced flag of the source counts it as skipped, and the Completion Writer
\* is not called for it.
C12_SyncedIsSkipped ==
  [][(pc = "push" /\ SyncedFlag(store[PushCandidate], CycleField)) =>
       /\ pushLog'.last = "skipped"
       /\ pushCounts'.skipped = pushCounts.skipped + 1]_vars

\* C13: an iteration of a push loop, of either source, in which the
\* Completion Writer fails for a candidate not yet flagged adds one to the
\* error counter, leaves the record's synced flag false, and the loop goes
\* on with the next candidate (or ends after its last one).
C13_WriterFailureIsolated ==
  [][(/\ pc = "push" /\ pushLog'.last = "failed"
      /\ ~SyncedFlag(store[PushCandidate], CycleField)) =>
       /\ pushCounts'.errors = pushCounts.errors + 1
       /\ ~SyncedFlag(store'[PushCandidate], CycleField)
       /\ IF idx < Len(candidates) THEN pc' = "push" /\ idx' = idx + 1
          ELSE pc' = "end"]_vars

\* C14: the Completion Writer succeeds at most once for a local record:
\* it does not succeed for a record for which it has succeeded before, in
\* this push cycle or in an earlier one, also when the cycle in which it
\* succeeded was left, or the flag-setting command failed, before the
\* synced flag was recorded.
C14_WriterSucceedsOnce ==
  [][(pc = "push" /\ pushLog'.last = "ok") => PushCandidate \notin pushLog.written]_vars

\* The iteration of the push loop for the record u in which the
\* Completion Writer succeeds.
PushOk(u) ==
  /\ pc = "push"
  /\ PushCandidate = u
  /\ PushStep(TRUE, TRUE, TRUE)
  /\ pushLog' = LogPush(TRUE, TRUE)

CompletedRecord(u) == u \in 1..Len(store) /\ store[u].status = "completed"

SyncedRecord(u) ==
  /\ u \in 1..Len(store)
  /\ SyncedFlag(store[u], IF store[u].things3_uuid # "" THEN ThingsField ELSE AsanaField)

\* C15: while push cycles keep recurring, a completed record for which the
\* completion write succeeds in the end (it succeeds at some attempt if the
\* record is attempted again and again) is eventually synced, whatever the
\* writer does for the other candidates.
C15_RetryLiveness ==
  \A u \in 1..MaxRecords :
    SF_vars(PushOk(u)) => (CompletedRecord(u) ~> SyncedRecord(u))

\* C16: while two runs for the same source overlap, and after them, no
\* identity of that source is carried by more than one pending or waiting
\* record.
C16_OverlapOneOpenRecord ==
  \A id \in ThingsIds :
    Cardinality({u \in OpenRecords(store, id) : FieldValue(store[u], OverlapField) = id}) <= 1

\* The entries of the fetched list that carry a parent identity and whose
\* own and parent's identities are both in the identity index g.
BothIndexed(ts, g) ==
  {i \in 1..Len(ts) : /\ ts[i].parent # ""
                      /\ g[ts[i].id] # 0
                      /\ g[ts[i].parent] # 0}

\* C17: a run issues one set-dependency call for each fetched task that
\* carries a parent identity and has both identities in the run's identity
\* index, and none for the others: the linking issues exactly these calls
\* and goes on to stale detection whether or not a call fails, and a run
\* does not end before the linking with such a task in its list.
C17_DependencyLinking ==
  [][/\ pc = "link" =>
          /\ cyc'.linkCalls = BothIndexed(tasks, gidToUuid)
          /\ pc' = "stale"
     /\ (pc = "upsert" /\ pc' = "aborted") => BothIndexed(tasks, gidToUuid) = {}]_vars

\* C18: no step of a command run with --dry-run changes the store, neither
\* its records nor its configuration (the UDAs), and none is an iteration
\* of a push loop, where the Completion Writer is called.
C18_DryRunNoMutation ==
  [][dryRun => (store' = store /\ udas' = udas /\ pc # "push" /\ pc' # "push")]_vars

\* What the upsert loop of a real run does from the store st with the task
\* list ts when every store command is answered regularly: the store it
\* leaves and its created / updated / skipped counts.
RECURSIVE UpsertAll(_, _, _, _, _)
UpsertAll(st, ts, i, field, c) ==
  IF i > Len(ts) THEN [store |-> st, counts |-> c]
  ELSE LET taskData == DataOf(ts[i].id, ts[i].alt)
           res == upsertTask(st, field, FieldValue(taskData, field), taskData, AllOk)
       IN UpsertAll(res.store, ts, i + 1, field, [c EXCEPT ![res.outcome] = @ + 1])

\* The records that stale detection finds stale in the store st.
StaleSet(st, field, ref) ==
  LET twTasks == findAllPendingBySource(st, field, TRUE, TRUE)
  IN {twTasks[k] : k \in {j \in 1..Len(twTasks) : FieldValue(st[twTasks[j]], field) \notin ref}}

\* C19: when the dry-run branch of a pull has reported (the cycle is at its
\* stale detection), the created / updated / skipped counts it has reported
\* are those the upsert loop of a real run makes from the same store and
\* the same task list, and the number of stale records it then reports is
\* the number a real run finds stale after its upserts.
C19_DryRunSameDecisions ==
  [][(dryRun /\ pc = "stale" /\ ~cyc'.staleFault) =>
       LET real == UpsertAll(store, tasks, 1, CycleField, NoCounts)
       IN /\ counts = real.counts
          /\ cyc'.staleCount = Cardinality(StaleSet(real.store, CycleField, fetchedExternalIds))]_vars

\* The record differs from the canonical task in description, project, due
\* or priority, compared by exact value, or in its tag set.
Differs(rec, taskData) ==
  \/ rec.description # taskData.description
  \/ rec.project # taskData.project
  \/ rec.due # taskData.due
  \/ rec.priority # taskData.priority
  \/ rec.tags # Range(MapSanitize(taskData.tags))

\* C20: an upsertTask call, answered regularly by the store, that finds a
\* matching record returns "updated" after exactly one modify command when
\* the record differs from the task, and else returns "skipped" and leaves
\* the store as it was.
C20_ChangeDetection ==
  [][(/\ Len(hist') = Len(hist) + 1
      /\ hist'[Len(hist')].r = AllOk
      /\ ~hist'[Len(hist')].fresh) =>
       LET call == hist'[Len(hist')]
           found == findByExternalId(store, FieldOfId(call.id), call.id, AllOk).uuid
       IN IF Differs(store[found], call.data)
          THEN call.outcome = "updated" /\ call.modifies = 1
          ELSE call.outcome = "skipped" /\ call.modifies = 0 /\ store' = store]_vars

\* The latest step was an upsertTask call, answered regularly by the store,
\* for an identity that has a pending or waiting record.
MatchedCall ==
  /\ Len(hist') = Len(hist) + 1
  /\ hist'[Len(hist')].r = AllOk
  /\ ~hist'[Len(hist')].fresh

\* The call of that step and the record its search found.
LatestCall == hist'[Len(hist')]
FoundRecord == store[findByExternalId(store, FieldOfId(LatestCall.id), LatestCall.id, AllOk).uuid]

\* C21: when the tag set of the matched record equals the set of the
\* task's tags after normalization, the tags are not among the changes
\* upsertTask finds, whatever the order or the spelling of the task's tags
\* and also when two of them normalize to the same token.
C21_TagSetEquivalence ==
  [][(MatchedCall /\ FoundRecord.tags = Range(MapSanitize(LatestCall.data.tags)))
       => "tags" \notin LatestCall.payload]_vars

\* The positions of the list s, in order, that are in the set P.
PositionsIn(s, P) == SelectSeq2([i \in 1..Len(s) |-> i], P)

\* C22: a filterTasks call that returns has put every task of its input, by
\* position, in exactly one of its two lists: in `included` when the
\* classifier answered keep for it and in `excluded` otherwise, both lists
\* in the order of the input; and it has called the classifier once per
\* task (not at all for an empty input).
C22_FilterPartition ==
  (Len(hist) = 1 /\ ~hist[1].out.threw) =>
    LET in == hist[1].input
        out == hist[1].out
        kept == PositionsIn(in, {i \in 1..Len(in) : classifyTask(hist[1].answers[i]).keep})
        dropped == PositionsIn(in, {i \in 1..Len(in) : ~classifyTask(hist[1].answers[i]).keep})
    IN /\ out.included = [k \in 1..Len(kept) |-> in[kept[k]]]
       /\ out.excluded = [k \in 1..Len(dropped) |-> in[dropped[k]]]
       /\ Len(out.included) + Len(out.excluded) = Len(in)
       /\ out.calls = Len(in)

\* C22 witness: a call returned for three tasks, the second excluded
\* between two included ones that are different tasks.
C22_Witness ==
  /\ Len(hist) = 1 /\ ~hist[1].out.threw
  /\ Len(hist[1].input) = 3
  /\ hist[1].input[1] # hist[1].input[3]
  /\ hist[1].out.included = << hist[1].input[1], hist[1].input[3] >>
  /\ hist[1].out.excluded = << hist[1].input[2] >>
  /\ hist[1].out.calls = 3

\* How many entries of the list s are equal to x.
Occurrences(s, x) == Cardinality({i \in 1..Len(s) : s[i] = x})

\* C23: the task built by buildTaskData has every input tag among its tags
\* and the source tag exactly once; its priority is set only when the given
\* one is H, M or L; and of the two identity fields exactly the one named
\* by externalIdField is set.
C23_BuildTaskData ==
  hist[1].built =>
    LET opts == hist[1].opts
        data == hist[1].data
    IN /\ Range(opts.tags) \subseteq Range(data.tags)
       /\ Occurrences(data.tags, opts.sourceTag) = 1
       /\ data.priority # "" => (opts.priority \in {"H", "M", "L"} /\ data.priority = opts.priority)
       /\ (data.things3_uuid # "") = (opts.externalIdField = ThingsField)
       /\ (data.asana_gid # "") = (opts.externalIdField = AsanaField)

\* C24: an upsertTask call whose pending search and waiting search both
\* get a malformed reply takes the identity as not matched: it issues the
\* create command and no modify command, and when the create command
\* succeeds it returns "created".
C24_MalformedSearchCreates ==
  \A i \in 1..Len(hist) :
    (hist[i].r.pending = "malformed" /\ hist[i].r.waiting = "malformed") =>
      /\ hist[i].adds = 1
      /\ hist[i].modifies = 0
      /\ hist[i].r.add # "fail" => hist[i].outcome = "created"

\* C24 witness: the identity had an open record already, both searches of
\* the call got a malformed reply, and the call returned "created".
C24_Witness ==
  \E i \in 1..Len(hist) :
    /\ hist[i].r.pending = "malformed" /\ hist[i].r.waiting = "malformed"
    /\ ~hist[i].fresh
    /\ hist[i].outcome = "created"
    /\ hist[i].uuid = 2

\* C25: an upsertTask call whose first identity search command fails (the
\* command errors instead of returning output) does not throw: it takes
\* the identity as not found, issues the create command and returns
\* "created".
C25_SearchFailureSwallowed ==
  \A i \in 1..Len(hist) :
    (hist[i].r.pending = "fail" /\ hist[i].r.add = "ok" /\ hist[i].r.annotate = 0) =>
      /\ hist[i].outcome = "created"
      /\ hist[i].adds = 1

\* C26: when the upsert loop of a cycle has ended, the identity index of
\* the run has an entry for every task of the list, and that entry is the
\* local id of a record that carries the task's identity.
C26_IndexComplete ==
  pc = "link" =>
    \A i \in 1..Len(tasks) :
      /\ gidToUuid[tasks[i].id] # 0
      /\ FieldValue(store[gidToUuid[tasks[i].id]], CycleField) = tasks[i].id

\* The fields in which the record differs from the canonical task.
DifferingFields(rec, taskData) ==
  {f \in {"description", "project", "due", "priority"} : rec[f] # taskData[f]}
  \cup (IF rec.tags # Range(MapSanitize(taskData.tags)) THEN {"tags"} ELSE {})

\* C27: an upsertTask call, answered regularly by the store, that returns
\* "updated" has issued one modify command, and that command carries
\* exactly the fields in which the matched record differs from the task.
C27_ExactPayload ==
  [][(MatchedCall /\ LatestCall.outcome = "updated") =>
       /\ LatestCall.modifies = 1
       /\ LatestCall.payload = DifferingFields(FoundRecord, LatestCall.data)]_vars

\* The annotation texts the create path is to add for the notes of a
\* task: of each note that is non-empty after trimming, in the order of
\* the notes, the trimmed text cut to the cap.
ExpectedNotes(notes) ==
  LET kept == PositionsIn(notes, {i \in 1..Len(notes) : Len(Trim(notes[i])) > 0})
  IN [k \in 1..Len(kept) |-> Slice(Trim(notes[kept[k]]), AnnotationCap)]

\* C28: an upsertTask call for an identity without a record, all of whose
\* store commands succeed, issues one create command, which makes the
\* record of the task, and then one annotate command for each note that is
\* non-empty after trimming, in order and cut to the cap, so that the new
\* record holds exactly those texts; it returns "created".
C28_CreatePath ==
  (hist[1].called /\ hist[1].r.add # "fail" /\ hist[1].r.annotate = 0) =>
    /\ hist[1].outcome = "created"
    /\ hist[1].adds = 1
    /\ Len(store) = 1
    /\ [store[1] EXCEPT !.annotations = << >>] = NewRecord(ThingsField, "t1", hist[1].data)
    /\ hist[1].annotates = Len(ExpectedNotes(hist[1].data.annotations))
    /\ store[1].annotations = ExpectedNotes(hist[1].data.annotations)

\* The latest step was an upsertTask call.
UpsertCalled == Len(hist') = Len(hist) + 1

\* The records of the given status that carry the identity of the call.
CallMatches(status) == Matching(store, status, FieldOfId(LatestCall.id), LatestCall.id)

\* C29: an upsertTask call whose pending search returns a match uses that
\* record whatever the waiting search would reply: it creates nothing and
\* does not fail on account of the waiting search.  A call whose pending
\* search returns no match and whose waiting search returns one uses the
\* waiting record: it creates nothing and returns that record's local id
\* with "skipped" or "updated".
C29_PendingThenWaiting ==
  [][UpsertCalled =>
       /\ (LatestCall.r.pending = "ok" /\ Len(CallMatches("pending")) > 0) =>
            /\ LatestCall.adds = 0
            /\ Len(store') = Len(store)
            /\ LatestCall.r.modify = "ok" =>
                 /\ LatestCall.outcome \in {"skipped", "updated"}
                 /\ LatestCall.uuid = CallMatches("pending")[1]
       /\ (/\ LatestCall.r.pending = "ok" /\ Len(CallMatches("pending")) = 0
           /\ LatestCall.r.waiting = "ok" /\ Len(CallMatches("waiting")) > 0) =>
            /\ LatestCall.adds = 0
            /\ Len(store') = Len(store)
            /\ LatestCall.r.modify = "ok" =>
                 /\ LatestCall.outcome \in {"skipped", "updated"}
                 /\ LatestCall.uuid = CallMatches("waiting")[1]]_vars

\* C29 witness: the record made by the first call was deferred; the second
\* call for the identity, the record still waiting and no record pending,
\* used the waiting record and created nothing.
C29_Witness ==
  /\ Len(hist) = 2
  /\ hist[1].id = hist[2].id
  /\ hist[1].outcome = "created"
  /\ hist[1].touched /\ ~hist[2].touched
  /\ hist[2].r = AllOk
  /\ hist[2].outcome = "skipped"
  /\ hist[2].adds = 0
  /\ hist[2].uuid = hist[1].uuid
  /\ Len(store) = 1
  /\ store[1].status = "waiting"

\* The place of a step of syncSource in the order fetch (with the store
\* setup before it), classify, reconcile, link, stale-detect, return.
CyclePcs == {"udas", "fetch", "filter", "upsert", "link", "stale", "end"}
PhaseRank(p) ==
  CASE p = "udas" -> 0 [] p = "fetch" -> 1 [] p = "filter" -> 2 [] p = "upsert" -> 3
    [] p = "link" -> 4 [] p = "stale" -> 5 [] p = "end" -> 6

\* The place of a cycle in a command: Things pull, Asana pull, Things
\* push, Asana push.
CycleRank(ph) ==
  CASE ph = "pullT" -> 1 [] ph = "pullA" -> 2 [] ph = "pushT" -> 3 [] ph = "pushA" -> 4

\* C30: within a pull cycle the steps go forward in the order fetch,
\* classify, reconcile, link, stale-detect (only the reconcile loop stays
\* in its phase from one upsert to the next), and the fetch starts right
\* after the setup that opens the cycle; a command goes to its next cycle
\* only from the end of the current one, and the cycles of a command come
\* in the order Things pull, Asana pull, Things push, Asana push, so no
\* fetch of a pull follows the start of a push.
C30_PhaseOrder ==
  [][/\ (InPull /\ todo' = todo /\ pc \in CyclePcs /\ pc' \in CyclePcs) =>
         \/ PhaseRank(pc') > PhaseRank(pc)
         \/ pc = "upsert" /\ pc' = "upsert" /\ idx' = idx + 1
     /\ pc' = "fetch" => pc = "udas"
     /\ (Len(todo) > 0 /\ Len(todo') > 0 /\ todo' # todo) =>
         /\ pc = "end"
         /\ pc' = FirstPc(Head(todo'))
         /\ CycleRank(Head(todo')) > CycleRank(Head(todo))
     /\ \A i, j \in 1..Len(todo') : i < j => CycleRank(todo'[i]) < CycleRank(todo'[j])]_vars

\* C30 witness: the Asana cycle of a real run, having fetched the parent
\* and its subtask, reconciled both and linked them, is at its stale
\* detection.
C30_Witness ==
  /\ pc = "stale"
  /\ todo = << "pullA" >>
  /\ ~dryRun
  /\ Len(tasks) = 2
  /\ cyc.linkCalls # {}
  /\ Len(store) = 2

\* The open records of an identity, as values.
OpenValues(st, id) == {st[u] : u \in OpenRecords(st, id)}

\* C31: after a cycle that was interrupted between two store commands and
\* one further complete, failure-free cycle with the same fetch result,
\* every fetched task has exactly one pending or waiting record, and that
\* record has the fields and annotations it has after a single
\* uninterrupted cycle from the same start.
C31_RecoveryFromInterruption ==
  hist[1].recovered =>
    LET list == hist[1].list
        single == RecoverCycle(hist[1].start, list)
    IN \A i \in 1..Len(list) :
         /\ Cardinality(OpenRecords(store, list[i].id)) = 1
         /\ OpenValues(store, list[i].id) = OpenValues(single, list[i].id)

\* The records of the store st that stale detection for the field is to
\* complete: the open records that carry the field with an identity that
\* was not fetched.
StaleRecords(st, field, fetched) ==
  {u \in 1..Len(st) : /\ st[u].status \in {"pending", "waiting"}
                      /\ FieldValue(st[u], field) # ""
                      /\ FieldValue(st[u], field) \notin fetched}

\* C32: the stale detection of a real run whose listings succeed attempts
\* every stale record: the records whose completion succeeds are completed
\* whether or not another one failed, a record whose completion fails stays
\* as it was, every stale record is counted, and no other record is
\* changed.
C32_StaleIndependent ==
  (hist[1].called /\ hist[1].pendingOk /\ hist[1].waitingOk) =>
    LET start == hist[1].start
        stale == StaleRecords(start, hist[1].field, hist[1].fetched)
    IN /\ Len(store) = Len(start)
       /\ \A u \in 1..Len(start) :
            IF u \in stale \ hist[1].fails
            THEN store[u] = [start[u] EXCEPT !.status = "completed"]
            ELSE store[u] = start[u]
       /\ hist[1].staleCount = Cardinality(stale)

\* C32 witness: of two stale records the completion of the first failed
\* and the second was completed.
C32_Witness ==
  /\ hist[1].called /\ hist[1].pendingOk /\ hist[1].waitingOk
  /\ hist[1].fails = {1}
  /\ hist[1].staleCount = 2
  /\ Len(store) = 2
  /\ store[1].status = "pending"
  /\ store[2].status = "completed"

\* C33: every Completion Writer call, of a push loop or of the hook, is
\* made for a record that is completed and carries the identity field of
\* the writer's source, and passes that record's identity, which is an
\* identity of that source.
C33_WriterOnlyForCompleted ==
  \A i \in 1..Len(pushLog) :
    LET call == pushLog[i]
    IN /\ store[call.u].status = "completed"
       /\ call.id # ""
       /\ call.id = FieldValue(store[call.u], call.field)
       /\ PushFieldOfId(call.id) = call.field

\* C33 witness: a push loop has called the Things writer for a completed
\* Things record while the store also holds a pending Asana record, and the
\* hook has called a writer as well.
C33_Witness ==
  /\ \E i \in 1..Len(pushLog) :
       /\ pushLog[i].by = "push"
       /\ pushLog[i].field = ThingsField
       /\ \E v \in 1..Len(store) : store[v].asana_gid # "" /\ store[v].status = "pending"
  /\ \E i \in 1..Len(pushLog) : pushLog[i].by = "hook"

\* C38: the Completion Writer succeeds at most once for a record, also
\* when the hook started by the record's completion and a push cycle both
\* see the record completed and not yet flagged.
C38_HookAndPushOnce ==
  \A u \in 1..Len(store) :
    Cardinality({i \in 1..Len(pushLog) : pushLog[i].u = u /\ pushLog[i].ok}) <= 1

\* C34: the mapping findAllPendingBySource yields never holds a record that
\* lacks the identity field; when both listings (pending and waiting)
\* return malformed output the mapping is empty, and the stale detection
\* then counts nothing as stale and leaves every record as it was.
C34_MalformedListing ==
  hist[1].called =>
    /\ \A u \in hist[1].listed : FieldValue(hist[1].start[u], hist[1].field) # ""
    /\ (~hist[1].pendingOk /\ ~hist[1].waitingOk) =>
         /\ hist[1].listed = {}
         /\ hist[1].staleCount = 0
         /\ store = hist[1].start

\* C34 witness: both listings were malformed while the store held a stale
\* record of the source beside a record of the other source; nothing was
\* completed.
C34_Witness ==
  /\ hist[1].called
  /\ ~hist[1].pendingOk /\ ~hist[1].waitingOk
  /\ StaleRecords(hist[1].start, hist[1].field, hist[1].fetched) # {}
  /\ \E u \in 1..Len(store) : FieldValue(store[u], hist[1].field) = ""
  /\ store = hist[1].start

\* C35: classifyTask raises exactly when the request cannot complete (it is
\* rejected or its body cannot be read as JSON); otherwise it raises
\* nothing, does not keep the task when the reply has no response field or
\* an empty response, and keeps the task exactly when the response text
\* after its last "</think>" marker (the whole text when there is none),
\* trimmed and lower-cased, starts with "yes".
AfterLastMarker(t) ==
  IF \A i \in 1..Len(t) : t[i] # ThinkEnd THEN t
  ELSE LET last == CHOOSE i \in 1..Len(t) :
                     t[i] = ThinkEnd /\ \A k \in (i + 1)..Len(t) : t[k] # ThinkEnd
       IN [j \in 1..(Len(t) - last) |-> t[last + j]]
C35_ClassifyReply ==
  (Len(hist) = 1 /\ hist[1].called) =>
    LET body == hist[1].body
    IN /\ hist[1].threw <=> body.kind \in {"rejected", "notjson"}
       /\ hist[1].threw => ~hist[1].keep
       /\ (body.kind = "nofield" \/ body.text = << >>) => ~hist[1].keep
       /\ body.kind = "text" =>
            (hist[1].keep <=>
               StartsWith(ToLowerCase(Trim(AfterLastMarker(body.text))), Yes))
C35_Witness ==
  /\ Len(hist) = 1
  /\ hist[1].called
  /\ hist[1].body.kind = "text"
  /\ hist[1].body.text = << "s", ThinkEnd, "Y", "e", "s" >>
  /\ hist[1].keep
  /\ ~hist[1].threw

\* C36: the second of two failure-free cycles of a real run with the
\* identical fetch result and nothing in between reports zero created and
\* zero updated, skips every task, issues no add and no modify command and
\* completes nothing as stale, also when the fetched list holds an identity
\* twice.
C36_RepeatedCycleNoOp ==
  hist[1].cycles = 2 =>
    /\ hist[1].second.created = 0
    /\ hist[1].second.updated = 0
    /\ hist[1].second.skipped = Len(hist[1].list)
    /\ hist[1].second.adds = 0
    /\ hist[1].second.modifies = 0
    /\ hist[1].second.staleCount = 0

\* C37: the push does not tell a record completed by stale detection from
\* one completed by the user: the scan of a push phase lists every such
\* record carrying the phase's identity field as a candidate, and the push
\* loop calls the Completion Writer for a candidate whose synced flag is
\* false, whatever completed it, with the record's identity.
C37_StaleCompletedIsPushed ==
  [][LET field == PhaseField(Head(todo))
     IN /\ (pc = "scan" /\ pc' # "scan") =>
             \A u \in hist[1].stale \cup hist[1].user :
               IsCarrier(store[u], field) =>
                 \E k \in 1..Len(candidates') : candidates'[k] = u
        /\ (pc = "push" /\ ~SyncedFlag(store[candidates[idx]], field)) =>
             \E ok \in BOOLEAN :
               pushLog' = Append(pushLog,
                                 WriterCall("push", candidates[idx], field,
                                            FieldValue(store[candidates[idx]], field), ok))]_vars

\* C37 witness: the writer of one source has been called by push loops for
\* a record that stale detection completed and for one the user completed.
C37_Witness ==
  \E i, j \in 1..Len(pushLog) :
    /\ pushLog[i].u \in hist[1].stale
    /\ pushLog[j].u \in hist[1].user
    /\ pushLog[i].field = pushLog[j].field
    /\ pushLog[i].id = FieldValue(store[pushLog[i].u], pushLog[i].field)

\* C39: while a pull or a push phase for one source runs, no step changes a
\* record that does not carry that source's identity field (it is neither
\* modified, completed nor flagged), no record is removed, and every
\* record created carries that field; so stale detection for a field
\* completes only records carrying it.
C39_CrossSourceFrame ==
  [][(Len(todo) > 0 /\ pc # "idle") =>
       LET field == PhaseField(Head(todo))
       IN /\ Len(store') >= Len(store)
          /\ \A u \in 1..Len(store) :
               ~IsCarrier(store[u], field) => store'[u] = store[u]
          /\ \A u \in (Len(store) + 1)..Len(store') :
               IsCarrier(store'[u], field)]_vars

\* C39 witness: the stale detection of an Asana pull has completed an Asana
\* record while the store holds an open record that carries the Things
\* identity only.
C39_Witness ==
  /\ Len(todo) > 0
  /\ Head(todo) = "pullA"
  /\ pc = "end"
  /\ cyc.staleCount > 0
  /\ \E u, v \in 1..Len(store) :
       /\ store[u].asana_gid # "" /\ store[u].status = "completed"
       /\ store[v].things3_uuid # "" /\ store[v].asana_gid = ""
       /\ store[v].status = "pending"

====
